---- MODULE Spec2Model ----
(***************************************************************************)
(* Plugin host of DesktopFriends (apps/desktop/src-tauri/src/plugins):     *)
(* the Registry (registry.rs), the Loader (loader.rs), the Hook Dispatcher *)
(* (hooks.rs) and the Manager (manager.rs) that sequences them.            *)
(*                                                                         *)
(* Every HashMap of the source is a function whose DOMAIN is its key set.  *)
(* The handlers are written as operators over one record m that holds the  *)
(* host's memory and its plugins directory, so that a handler that calls   *)
(* another handler (install -> uninstall -> disable, new -> enable) is the *)
(* composition of their operators; an action of the state machine applies  *)
(* one whole public handler.  A handler returns [m |-> ..., ok |-> ...]:   *)
(* ok = FALSE is Err(..).                                                  *)
(*                                                                         *)
(* Environment: the file system is reliable (no fs::write / create_dir     *)
(* failure); what a native module returns from its entry points is chosen  *)
(* freely at every call; a plugin directory can be deleted out of band.    *)
(***************************************************************************)
EXTENDS Integers, FiniteSets, Sequences, TLC

\* ------------------------------------------------------------------ bounds
\* number of plugin ids the host ever sees
NumPlugins == 1

\* plugin ids (manifest.id), the keys of every map of the host
Ids == 1..NumPlugins

\* hook names a manifest can declare (hooks.rs, mod hooks)
HookNames == {"on_app_start"}

\* serde_json::Value::Object(Default::default()), the configuration a freshly
\* registered plugin gets, and one configuration that differs from it
EmptyConfig == "{}"
Configs == {EmptyConfig, "{\"k\":1}"}

\* the i32 a native initialize / shutdown returns: 0 is success
Status == {0, 1}

\* what the file named by manifest.main is inside a package or a plugin
\* directory: absent, present but not loadable (dlopen fails or one of the
\* seven symbols is missing), or a loadable module
LibKinds == {"missing", "bad", "ok"}

\* a PluginManifest, reduced to the fields the host acts on: the declared
\* hooks and (through lib) the file manifest.main names.  The hooks of a
\* manifest are read only after its module was loaded and initialized
\* (manager.rs:204-208), so one hook list stands for all when the module
\* cannot be loaded.
Manifests ==
    {mf \in [hooks : SUBSET HookNames, lib : LibKinds] : mf.lib # "ok" => mf.hooks = {}}

\* ----------------------------------------------------------- map helpers
EmptyMap == [x \in {} |-> x]

Put(f, k, v) == [x \in (DOMAIN f) \cup {k} |-> IF x = k THEN v ELSE f[x]]

Remove(f, k) == [x \in (DOMAIN f) \ {k} |-> f[x]]

\* ---------------------------------------------------------------- results
Ok(m) == [m |-> m, ok |-> TRUE]

Err(m) == [m |-> m, ok |-> FALSE]

\* Err(RegistryError::<kind>(plugin_id))
RegistryError(m, kind) == [m |-> m, ok |-> FALSE, err |-> kind]

\* the `?` operator: continue with Next(r.m) only when r is Ok
Try(r, Cont(_)) == IF r.ok THEN Cont(r.m) ELSE r

\* ---------------------------------------------------------------- Registry
PluginState(e) == [enabled |-> e.enabled, config |-> e.config]

DefaultState == [enabled |-> FALSE, config |-> EmptyConfig]

SaveState(m) ==
    [m EXCEPT !.stateFile = [id \in DOMAIN m.entries |-> PluginState(m.entries[id])]]

LoadState(m) == m.stateFile

\* fault: the scan forgets the persisted state and gives every entry the default
ScanPluginsIgnoringState(m) ==
    [m EXCEPT !.entries =
        [id \in (DOMAIN m.entries) \cup (DOMAIN m.dirs) |->
            IF id \in DOMAIN m.dirs
            THEN [hooks |-> m.dirs[id].hooks, enabled |-> FALSE, config |-> EmptyConfig]
            ELSE m.entries[id]]]

ScanPlugins(m) ==
    LET data == LoadState(m)
        scanned(id) ==
            LET st == IF id \in DOMAIN data THEN data[id] ELSE DefaultState
            IN  [hooks |-> m.dirs[id].hooks, enabled |-> st.enabled, config |-> st.config]
    IN  [m EXCEPT !.entries =
            [id \in (DOMAIN m.entries) \cup (DOMAIN m.dirs) |->
                IF id \in DOMAIN m.dirs THEN scanned(id) ELSE m.entries[id]]]

RegistryNew(m) == ScanPlugins([m EXCEPT !.entries = EmptyMap])

\* fault: refresh scans without clearing the map first
RegistryRefreshWithoutClear(m) == ScanPlugins(m)

RegistryRefresh(m) == ScanPlugins([m EXCEPT !.entries = EmptyMap])

Exists(m, id) == id \in DOMAIN m.entries

\* fault: an id that is registered already gets a fresh entry instead of
\* PluginExists
RegisterOverwriting(m, id, manifest) ==
    Ok(SaveState([m EXCEPT !.entries =
        Put(@, id, [hooks |-> manifest.hooks, enabled |-> FALSE, config |-> EmptyConfig])]))

Register(m, id, manifest) ==
    IF id \in DOMAIN m.entries
    THEN RegistryError(m, "PluginExists")
    ELSE Ok(SaveState([m EXCEPT !.entries =
            Put(@, id, [hooks |-> manifest.hooks, enabled |-> FALSE, config |-> EmptyConfig])]))

Unregister(m, id) ==
    IF id \notin DOMAIN m.entries
    THEN RegistryError(m, "PluginNotFound")
    ELSE Ok(SaveState([m EXCEPT !.entries = Remove(@, id)]))

\* fault: an id without an entry gets one instead of PluginNotFound
SetEnabledInserting(m, id, enabled) ==
    IF id \notin DOMAIN m.entries
    THEN Ok(SaveState([m EXCEPT !.entries =
            Put(@, id, [hooks |-> {}, enabled |-> enabled, config |-> EmptyConfig])]))
    ELSE Ok(SaveState([m EXCEPT !.entries[id].enabled = enabled]))

SetEnabled(m, id, enabled) ==
    IF id \notin DOMAIN m.entries
    THEN RegistryError(m, "PluginNotFound")
    ELSE Ok(SaveState([m EXCEPT !.entries[id].enabled = enabled]))

\* fault: set_config also switches the entry off
RegistrySetConfigDisabling(m, id, config) ==
    IF id \notin DOMAIN m.entries
    THEN RegistryError(m, "PluginNotFound")
    ELSE Ok(SaveState([m EXCEPT !.entries[id].config = config,
                                !.entries[id].enabled = FALSE]))

RegistrySetConfig(m, id, config) ==
    IF id \notin DOMAIN m.entries
    THEN RegistryError(m, "PluginNotFound")
    ELSE Ok(SaveState([m EXCEPT !.entries[id].config = config]))

EnabledPlugins(m) == {id \in DOMAIN m.entries : m.entries[id].enabled}

\* PathBuf::exists of entry.lib_path
LibPathExists(m, id) == id \in DOMAIN m.dirs /\ m.dirs[id].lib # "missing"

\* ---------------------------------------------------------- Hook Dispatcher
HookRegister(m, hook, id) ==
    [m EXCEPT
        !.hooks = Put(@, hook, (IF hook \in DOMAIN @ THEN @[hook] ELSE {}) \cup {id}),
        !.plugin_hooks = Put(@, id, (IF id \in DOMAIN @ THEN @[id] ELSE {}) \cup {hook})]

RECURSIVE RegisterMany(_, _, _)
RegisterMany(m, hs, id) ==
    IF hs = {}
    THEN m
    ELSE LET h == CHOOSE x \in hs : TRUE
         IN  RegisterMany(HookRegister(m, h, id), hs \ {h}, id)

\* fault: the listener is removed and the key stays, also with an empty set
PruneListenerKeepingKey(hooks, hook, id) ==
    IF hook \notin DOMAIN hooks
    THEN hooks
    ELSE [hooks EXCEPT ![hook] = @ \ {id}]

\* remove id from hooks[hook], dropping the key when its set becomes empty
PruneListener(hooks, hook, id) ==
    IF hook \notin DOMAIN hooks
    THEN hooks
    ELSE IF hooks[hook] \ {id} = {}
         THEN Remove(hooks, hook)
         ELSE [hooks EXCEPT ![hook] = @ \ {id}]

RECURSIVE PruneListeners(_, _, _)
PruneListeners(hooks, hs, id) ==
    IF hs = {}
    THEN hooks
    ELSE LET h == CHOOSE x \in hs : TRUE
         IN  PruneListeners(PruneListener(hooks, h, id), hs \ {h}, id)

\* fault: the subscription is removed from the forward map alone
HookUnregisterForwardOnly(m, hook, id) ==
    [m EXCEPT !.hooks = PruneListener(@, hook, id)]

HookUnregister(m, hook, id) ==
    [m EXCEPT
        !.hooks = PruneListener(@, hook, id),
        !.plugin_hooks =
            IF id \notin DOMAIN @
            THEN @
            ELSE IF @[id] \ {hook} = {} THEN Remove(@, id) ELSE [@ EXCEPT ![id] = @ \ {hook}]]

\* fault: unregister_all drops the subscriptions of every plugin
UnregisterAllOfEveryone(m, id) ==
    IF id \in DOMAIN m.plugin_hooks
    THEN [m EXCEPT !.plugin_hooks = EmptyMap, !.hooks = EmptyMap]
    ELSE m

UnregisterAll(m, id) ==
    IF id \in DOMAIN m.plugin_hooks
    THEN [m EXCEPT
            !.plugin_hooks = Remove(@, id),
            !.hooks = PruneListeners(@, m.plugin_hooks[id], id)]
    ELSE m

GetListeners(m, hook) == IF hook \in DOMAIN m.hooks THEN m.hooks[hook] ELSE {}

HasListeners(m, hook) == IF hook \in DOMAIN m.hooks THEN m.hooks[hook] # {} ELSE FALSE

GetPluginHooks(m, id) == IF id \in DOMAIN m.plugin_hooks THEN m.plugin_hooks[id] ELSE {}

ListHooks(m) == DOMAIN m.hooks

Clear(m) == [m EXCEPT !.hooks = EmptyMap, !.plugin_hooks = EmptyMap]

\* the hooks h for which get_listeners(h) contains id
Subscriptions(m, id) == {h \in HookNames : id \in GetListeners(m, h)}

\* ------------------------------------------------------------------ Loader
\* trace of the native entry points called during the current operation
Call(m, id, fn) == [m EXCEPT !.calls = @ \cup {[id |-> id, fn |-> fn]}]

IsLoaded(m, id) == id \in DOMAIN m.plugins

\* the current operation has called the shutdown entry point of plugin id
ShutdownCalled(m, id) == [id |-> id, fn |-> "shutdown"] \in m.calls

\* HashMap::remove drops the LoadedPlugin, and with it the Library handle;
\* released records the drop and whether the operation that drops the handle
\* called the module's shutdown entry point before.  No operation of the host
\* loads a module after it called a shutdown, so the call, when there is one,
\* was made on the handle that is dropped.
LoaderUnload(m, id) ==
    IF id \in DOMAIN m.plugins
    THEN Ok([m EXCEPT !.plugins = Remove(@, id),
                      !.released = @ \cup {[id |-> id, shut |-> ShutdownCalled(m, id)]}])
    ELSE Err(m)

\* the seven entry points load resolves, in the order it resolves them
EntryPoints ==
    {"initialize", "shutdown", "get_tools", "execute_tool", "on_hook",
     "free_string", "get_last_error"}

\* module files that open but lack one entry point, by the one they lack
Lacking ==
    [no_initialize |-> "initialize", no_shutdown |-> "shutdown",
     no_get_tools |-> "get_tools", no_execute_tool |-> "execute_tool",
     no_on_hook |-> "on_hook", no_free_string |-> "free_string",
     no_get_last_error |-> "get_last_error"]

\* Library::new succeeds on the file
LibraryOpens(lib) == lib \notin {"missing", "bad"}

\* the entry points lib.get finds in the opened module
Exports(lib) ==
    IF lib \in DOMAIN Lacking THEN EntryPoints \ {Lacking[lib]}
    ELSE IF lib = "ok" THEN EntryPoints
    ELSE {}

\* fault: the two entry points for strings are not resolved at load
LoaderLoadUnchecked(m, id) ==
    LET r == IF id \in DOMAIN m.plugins THEN LoaderUnload(m, id) ELSE Ok(m)
    IN  Try(r, LAMBDA m1 :
            IF /\ id \in DOMAIN m1.dirs
               /\ LibraryOpens(m1.dirs[id].lib)
               /\ EntryPoints \ {"free_string", "get_last_error"} \subseteq Exports(m1.dirs[id].lib)
            THEN Ok([m1 EXCEPT !.plugins = Put(@, id, [library |-> m1.dirs[id].lib])])
            ELSE Err(m1))

LoaderLoad(m, id) ==
    LET r == IF id \in DOMAIN m.plugins THEN LoaderUnload(m, id) ELSE Ok(m)
    IN  Try(r, LAMBDA m1 :
            IF /\ id \in DOMAIN m1.dirs
               /\ LibraryOpens(m1.dirs[id].lib)
               /\ \A symbol \in EntryPoints : symbol \in Exports(m1.dirs[id].lib)
            THEN Ok([m1 EXCEPT !.plugins = Put(@, id, [library |-> m1.dirs[id].lib])])
            ELSE Err(m1))

\* One native call, appended to the trace of the current operation: the entry
\* point, the status it returned (0 for the entry points without status) and
\* the string it returned or was given ("" for none, "null" for a null pointer)
Native(m, id, fn, rc, str) ==
    [Call(m, id, fn) EXCEPT !.ffi = Append(@, [id |-> id, fn |-> fn, rc |-> rc, str |-> str])]

\* CStr::from_ptr(ptr).to_string_lossy().into_owned(), recorded in the trace
\* as a step of the host
IntoOwned(m, id, str) ==
    [m EXCEPT !.ffi = Append(@, [id |-> id, fn |-> "into_owned", rc |-> 0, str |-> str])]

\* copy the returned string and hand the pointer back to the plugin
CopyAndFree(m, id, str) == Native(IntoOwned(m, id, str), id, "free_string", 0, str)

\* what get_last_error hands back: a null pointer or a message
LastErrors == {"null", "message"}

\* the text of InitializeFailed and ShutdownFailed
UnknownError(rc) == "Unknown error (code: " \o ToString(rc) \o ")"

\* the error branch of initialize and shutdown
LastError(m, id, rc, msg) ==
    LET m1 == Native(m, id, "get_last_error", 0, msg)
    IN  IF msg # "null"
        THEN [m |-> CopyAndFree(m1, id, msg), ok |-> FALSE, err |-> msg]
        ELSE [m |-> m1, ok |-> FALSE, err |-> UnknownError(rc)]

\* fault: the last error is fetched whatever the status is
InitializeAlwaysAsking(m, id, rc, msg) ==
    IF id \notin DOMAIN m.plugins
    THEN [m |-> m, ok |-> FALSE, err |-> "PluginNotLoaded"]
    ELSE LET r == LastError(Native(m, id, "initialize", rc, ""), id, rc, msg)
         IN  IF rc # 0 THEN r ELSE Ok(r.m)

Initialize(m, id, rc, msg) ==
    IF id \notin DOMAIN m.plugins
    THEN [m |-> m, ok |-> FALSE, err |-> "PluginNotLoaded"]
    ELSE LET m1 == Native(m, id, "initialize", rc, "")
         IN  IF rc # 0 THEN LastError(m1, id, rc, msg) ELSE Ok(m1)

Shutdown(m, id, rc, msg) ==
    IF id \notin DOMAIN m.plugins
    THEN [m |-> m, ok |-> FALSE, err |-> "PluginNotLoaded"]
    ELSE LET m1 == Native(m, id, "shutdown", rc, "")
         IN  IF rc # 0 THEN LastError(m1, id, rc, msg) ELSE Ok(m1)

\* The Manager looks at no more than Ok or Err of the two, so in its
\* operations one message stands for whatever get_last_error returns.
LoaderInitialize(m, id, rc) == Initialize(m, id, rc, "message")

LoaderShutdown(m, id, rc) == Shutdown(m, id, rc, "message")

\* what the native get_tools hands back: a null pointer, a JSON array of
\* ToolDefinition, or text that is not one
ToolsReturns == {"null", "tools", "invalid"}

LoaderGetTools(m, id, ret) ==
    IF id \notin DOMAIN m.plugins
    THEN [m |-> m, ok |-> FALSE, res |-> "not_loaded"]
    ELSE LET m1 == Native(m, id, "get_tools", 0, ret)
         IN  IF ret = "null"
             THEN [m |-> m1, ok |-> TRUE, res |-> "no_tools"]
             ELSE LET m2 == CopyAndFree(m1, id, ret)
                  IN  IF ret = "invalid"
                      THEN [m |-> m2, ok |-> FALSE, res |-> "json_error"]
                      ELSE [m |-> m2, ok |-> TRUE, res |-> ret]

\* what the native execute_tool hands back: a null pointer, a serialized
\* ToolResult (success without error, error without success, or success
\* together with an error string), or text that is not a ToolResult
ToolReturns == {"null", "success", "error", "inconsistent", "invalid"}

\* the fields of the ToolResult the host hands to its caller, by the name the
\* outcome carries: the one built for a null pointer and the three parsed
ToolResult ==
    [null_failure |-> [success |-> FALSE, error |-> TRUE],
     success      |-> [success |-> TRUE,  error |-> FALSE],
     error        |-> [success |-> FALSE, error |-> TRUE],
     inconsistent |-> [success |-> TRUE,  error |-> TRUE]]

\* fault: a null pointer is answered with an empty success
ExecuteToolNullAsSuccess(m, id, ret) ==
    IF id \notin DOMAIN m.plugins
    THEN [m |-> m, ok |-> FALSE, res |-> "not_loaded"]
    ELSE LET m1 == Native(m, id, "execute_tool", 0, ret)
         IN  IF ret = "null"
             THEN [m |-> m1, ok |-> TRUE, res |-> "success"]
             ELSE LET m2 == CopyAndFree(m1, id, ret)
                  IN  IF ret = "invalid"
                      THEN [m |-> m2, ok |-> FALSE, res |-> "json_error"]
                      ELSE [m |-> m2, ok |-> TRUE, res |-> ret]

LoaderExecuteTool(m, id, ret) ==
    IF id \notin DOMAIN m.plugins
    THEN [m |-> m, ok |-> FALSE, res |-> "not_loaded"]
    ELSE LET m1 == Native(m, id, "execute_tool", 0, ret)
         IN  IF ret = "null"
             THEN [m |-> m1, ok |-> TRUE, res |-> "null_failure"]
             ELSE LET m2 == CopyAndFree(m1, id, ret)
                  IN  IF ret = "invalid"
                      THEN [m |-> m2, ok |-> FALSE, res |-> "json_error"]
                      ELSE [m |-> m2, ok |-> TRUE, res |-> ret]

\* what the native on_hook hands back: a null pointer, JSON text, or text
\* that is not JSON
HookReturns == {"null", "value", "invalid"}

\* trace of the calls of PluginLoader::trigger_hook during the current
\* operation, in call order, each with what came of it
Invoke(m, id, ret) == [m EXCEPT !.invoked = Append(@, [id |-> id, ret |-> ret])]

\* fault: the string is given back only when it parsed
TriggerHookLeakingOnError(m, id, ret) ==
    IF id \notin DOMAIN m.plugins
    THEN [m |-> Invoke(m, id, "not_loaded"), ok |-> FALSE, some |-> FALSE]
    ELSE LET m1 == Invoke(Native(m, id, "on_hook", 0, ret), id, ret)
         IN  CASE ret = "null"    -> [m |-> m1, ok |-> TRUE, some |-> FALSE]
               [] ret = "invalid" -> [m |-> IntoOwned(m1, id, ret), ok |-> FALSE, some |-> FALSE]
               [] OTHER           -> [m |-> CopyAndFree(m1, id, ret), ok |-> TRUE, some |-> TRUE]

LoaderTriggerHook(m, id, ret) ==
    IF id \notin DOMAIN m.plugins
    THEN [m |-> Invoke(m, id, "not_loaded"), ok |-> FALSE, some |-> FALSE]
    ELSE LET m1 == Invoke(Native(m, id, "on_hook", 0, ret), id, ret)
         IN  IF ret = "null"
             THEN [m |-> m1, ok |-> TRUE, some |-> FALSE]
             ELSE LET m2 == CopyAndFree(m1, id, ret)
                  IN  IF ret = "invalid"
                      THEN [m |-> m2, ok |-> FALSE, some |-> FALSE]
                      ELSE [m |-> m2, ok |-> TRUE, some |-> TRUE]

\* impl Drop for PluginLoader: shutdown every loaded plugin, errors ignored;
\* the map and its Library handles are dropped after the loop
\* fault: the loop stops at the first shutdown that returns an error
RECURSIVE LoaderShutdownAllAborting(_, _, _)
LoaderShutdownAllAborting(m, ids, shutRc) ==
    IF ids = {}
    THEN m
    ELSE LET id == CHOOSE x \in ids : TRUE
             r  == LoaderShutdown(m, id, shutRc[id])
         IN  IF r.ok THEN LoaderShutdownAllAborting(r.m, ids \ {id}, shutRc) ELSE r.m

RECURSIVE LoaderShutdownAll(_, _, _)
LoaderShutdownAll(m, ids, shutRc) ==
    IF ids = {}
    THEN m
    ELSE LET id == CHOOSE x \in ids : TRUE
         IN  LoaderShutdownAll(LoaderShutdown(m, id, shutRc[id]).m, ids \ {id}, shutRc)

LoaderDrop(m, shutRc) ==
    LET m1 == LoaderShutdownAll(m, DOMAIN m.plugins, shutRc)
    IN  [m1 EXCEPT !.plugins = EmptyMap,
                   !.released = @ \cup {[id |-> id, shut |-> ShutdownCalled(m1, id)] : id \in DOMAIN m1.plugins}]

\* ----------------------------------------------------------------- Manager
\* fault: the existence of entry.lib_path is not checked before the load
EnableWithoutLibCheck(m, id, initRc) ==
    IF ~Exists(m, id)
    THEN Err(m)
    ELSE Try(LoaderLoad(m, id), LAMBDA m1 :
         Try(LoaderInitialize(m1, id, initRc), LAMBDA m2 :
         SetEnabled(RegisterMany(m2, m.entries[id].hooks, id), id, TRUE)))

Enable(m, id, initRc) ==
    IF ~Exists(m, id)
    THEN Err(m)
    ELSE IF ~LibPathExists(m, id)
    THEN Err(m)
    ELSE Try(LoaderLoad(m, id), LAMBDA m1 :
         Try(LoaderInitialize(m1, id, initRc), LAMBDA m2 :
         SetEnabled(RegisterMany(m2, m.entries[id].hooks, id), id, TRUE)))

\* fault: the hooks are unregistered only once shutdown and unload succeeded
DisableHooksAfterUnload(m, id, shutRc) ==
    LET r == IF IsLoaded(m, id)
             THEN Try(LoaderShutdown(m, id, shutRc), LAMBDA m2 : LoaderUnload(m2, id))
             ELSE Ok(m)
    IN  Try(r, LAMBDA m3 : SetEnabled(UnregisterAll(m3, id), id, FALSE))

Disable(m, id, shutRc) ==
    LET m1 == UnregisterAll(m, id)
        r  == IF IsLoaded(m1, id)
              THEN Try(LoaderShutdown(m1, id, shutRc), LAMBDA m2 : LoaderUnload(m2, id))
              ELSE Ok(m1)
    IN  Try(r, LAMBDA m3 : SetEnabled(m3, id, FALSE))

Uninstall(m, id, shutRc) ==
    LET m1 == Disable(m, id, shutRc).m
    IN  IF ~Exists(m1, id)
        THEN Err(m1)
        ELSE Try(Unregister(m1, id), LAMBDA m2 : Ok([m2 EXCEPT !.dirs = Remove(@, id)]))

\* hasManifest = FALSE: no archive entry ends with manifest.json
Install(m, id, manifest, hasManifest, shutRc) ==
    IF ~hasManifest
    THEN Err(m)
    ELSE LET r == IF Exists(m, id) THEN Uninstall(m, id, shutRc) ELSE Ok(m)
         IN  Try(r, LAMBDA m1 :
                Register([m1 EXCEPT !.dirs = Put(@, id, manifest)], id, manifest))

\* fault: a tool call that fails to parse unloads the plugin
ExecuteToolUnloadingOnError(m, id, ret) ==
    IF ~IsLoaded(m, id)
    THEN [m |-> m, ok |-> FALSE, res |-> "not_enabled"]
    ELSE LET r == LoaderExecuteTool(m, id, ret)
         IN  IF r.ok THEN r ELSE [r EXCEPT !.m = LoaderUnload(r.m, id).m]

ExecuteTool(m, id, ret) ==
    IF ~IsLoaded(m, id)
    THEN [m |-> m, ok |-> FALSE, res |-> "not_enabled"]
    ELSE LoaderExecuteTool(m, id, ret)

\* PluginManager::list: the PluginInfo of every entry, by id
List(m) == Ok(m)

\* PluginManager::get
Get(m, id) == IF Exists(m, id) THEN Ok(m) ELSE RegistryError(m, "PluginNotFound")

\* PluginLoader::get_all_tools: get_tools of every loaded plugin, an error
\* counting as no tools
RECURSIVE GetAllToolsOf(_, _, _)
GetAllToolsOf(m, ids, rets) ==
    IF ids = {}
    THEN Ok(m)
    ELSE LET id == CHOOSE x \in ids : TRUE
         IN  GetAllToolsOf(LoaderGetTools(m, id, rets[id]).m, ids \ {id}, rets)

GetAllTools(m, rets) == GetAllToolsOf(m, DOMAIN m.plugins, rets)

\* fault: a subscriber that returned null contributes a HookResult too
RECURSIVE TriggerListenersKeepingNull(_, _, _, _)
TriggerListenersKeepingNull(m, ids, rets, results) ==
    IF ids = {}
    THEN [m |-> [m EXCEPT !.results = results], ok |-> TRUE]
    ELSE LET id == CHOOSE x \in ids : TRUE
             r  == LoaderTriggerHook(m, id, rets[id])
         IN  TriggerListenersKeepingNull(r.m, ids \ {id}, rets,
                                         IF r.ok THEN Append(results, id) ELSE results)

\* fault: the loop ends at the first subscriber whose call returns an error
RECURSIVE TriggerListenersAborting(_, _, _, _)
TriggerListenersAborting(m, ids, rets, results) ==
    IF ids = {}
    THEN [m |-> [m EXCEPT !.results = results], ok |-> TRUE]
    ELSE LET id == CHOOSE x \in ids : TRUE
             r  == LoaderTriggerHook(m, id, rets[id])
         IN  IF r.ok
             THEN TriggerListenersAborting(r.m, ids \ {id}, rets,
                                           IF r.some THEN Append(results, id) ELSE results)
             ELSE [m |-> [r.m EXCEPT !.results = results], ok |-> FALSE]

\* results is the Vec<HookResult>, reduced to the plugin_id of each element;
\* the listeners come out of a HashSet, in no particular order
RECURSIVE TriggerListeners(_, _, _, _)
TriggerListeners(m, ids, rets, results) ==
    IF ids = {}
    THEN [m |-> [m EXCEPT !.results = results], ok |-> TRUE]
    ELSE LET id == CHOOSE x \in ids : TRUE
             r  == LoaderTriggerHook(m, id, rets[id])
         IN  TriggerListeners(r.m, ids \ {id}, rets,
                              IF r.ok /\ r.some THEN Append(results, id) ELSE results)

TriggerHook(m, hook, rets) == TriggerListeners(m, GetListeners(m, hook), rets, <<>>)

SetConfig(m, id, config) == RegistrySetConfig(m, id, config)

Refresh(m) == Ok(RegistryRefresh(m))

\* failed records the ids whose enable returned Err during restoration
RECURSIVE RestoreEnabledPlugins(_, _, _)
RestoreEnabledPlugins(m, ids, initRc) ==
    IF ids = {}
    THEN Ok(m)
    ELSE LET id == CHOOSE x \in ids : TRUE
             r  == Enable(m, id, initRc[id])
             m1 == IF r.ok
                   THEN r.m
                   ELSE [SetEnabled(r.m, id, FALSE).m EXCEPT !.failed = @ \cup {id}]
         IN  RestoreEnabledPlugins(m1, ids \ {id}, initRc)

ManagerNew(m, initRc) ==
    LET m1 == RegistryNew([m EXCEPT !.plugins = EmptyMap,
                                    !.hooks = EmptyMap,
                                    !.plugin_hooks = EmptyMap])
    IN  RestoreEnabledPlugins(m1, EnabledPlugins(m1), initRc)

RECURSIVE DisableAll(_, _, _)
DisableAll(m, ids, shutRc) ==
    IF ids = {}
    THEN m
    ELSE LET id == CHOOSE x \in ids : TRUE
         IN  DisableAll(Disable(m, id, shutRc[id]).m, ids \ {id}, shutRc)

\* impl Drop for PluginManager, followed by the drop of its fields (the
\* Loader first); the Registry and the Dispatcher only free their memory
ManagerDrop(m, shutRc) ==
    LET m1 == DisableAll(m, EnabledPlugins(m), shutRc)
        m2 == LoaderDrop(m1, shutRc)
    IN  [m2 EXCEPT !.entries = EmptyMap, !.hooks = EmptyMap, !.plugin_hooks = EmptyMap]

\* ------------------------------------------- command-bridge: CommandExecutor
\* An interceptor is known by its place in CommandExecutor.interceptors, so
\* the vector is its length.  The trace of one execute lists, in call order,
\* each before_execute with what it returned, the run of the process, and
\* each after_execute.
MaxInterceptors == 6

\* what before_execute returns
Verdicts == {"ok", "err"}

\* what Command::output comes to: the process cannot be launched, or it runs
\* to its end with a zero or a non-zero exit status
Launches == {"launch_failure", "exit_zero", "exit_nonzero"}

Event(ev, i, ok) == [ev |-> ev, i |-> i, ok |-> ok]

\* CommandExecutor::register
ExecutorRegister(b) == [b EXCEPT !.interceptors = @ + 1]

\* fault: the loop goes on after a before_execute that returned Err
RECURSIVE BeforeAllUnconditionally(_, _, _, _)
BeforeAllUnconditionally(i, n, verdicts, trace) ==
    IF i > n
    THEN [trace |-> trace, ok |-> \A j \in 1..n : verdicts[j] = "ok"]
    ELSE BeforeAllUnconditionally(i + 1, n, verdicts,
             Append(trace, Event("before_execute", i, verdicts[i] = "ok")))

\* for hook in &self.interceptors { hook.before_execute(plan, &native)?; }
RECURSIVE BeforeAll(_, _, _, _)
BeforeAll(i, n, verdicts, trace) ==
    IF i > n
    THEN [trace |-> trace, ok |-> TRUE]
    ELSE IF verdicts[i] = "ok"
         THEN BeforeAll(i + 1, n, verdicts, Append(trace, Event("before_execute", i, TRUE)))
         ELSE [trace |-> Append(trace, Event("before_execute", i, FALSE)), ok |-> FALSE]

\* for hook in &self.interceptors { hook.after_execute(plan, &native, &cmd_output); }
RECURSIVE AfterAll(_, _, _)
AfterAll(i, n, trace) ==
    IF i > n
    THEN trace
    ELSE AfterAll(i + 1, n, Append(trace, Event("after_execute", i, TRUE)))

\* CommandExecutor::execute; plan.resolve() returns Ok on every platform,
\* since the plan always has its unix command
ExecutorExecute(b, verdicts, launch) ==
    LET n == b.interceptors
        r == BeforeAll(1, n, verdicts, <<>>)
    IN  IF ~r.ok
        THEN [b EXCEPT !.trace = r.trace, !.result = "Unauthorized"]
        ELSE IF launch = "launch_failure"
        THEN [b EXCEPT !.trace = Append(r.trace, Event("output", 0, FALSE)),
                       !.result = "LaunchFailure"]
        ELSE [b EXCEPT !.trace = AfterAll(1, n, Append(r.trace, Event("output", 0, TRUE))),
                       !.result = launch]

\* ------------------------------------------- command-bridge: the plugin
\* A request is known by its place in RequestStore.entries (its id is a fresh
\* uuid); `spawned` counts the processes run for it.
MaxRequests == 2

RequestStates == {"Pending", "Running", "Completed", "Rejected", "Failed"}

\* the `decision` argument of handle_request: left out, or a string; the
\* schema names "approve" and "reject", "deny" stands for any other string
Decisions == {"absent", "approve", "reject", "deny"}

\* the result of the last tool call
NoReply ==
    [tool |-> "", ok |-> FALSE, error |-> "", action |-> "", hasUpdate |-> FALSE,
     version |-> 0]

\* ToolResult::error(message)
ToolError(tool, error) == [NoReply EXCEPT !.tool = tool, !.error = error]

ToolSuccess(tool) == [NoReply EXCEPT !.tool = tool, !.ok = TRUE]

\* CommandBridgePlugin::default, before initialize
BridgeDefault ==
    [interceptors |-> 0, trace |-> <<>>, result |-> "",
     initialized |-> FALSE, requests |-> <<>>, version |-> 1,
     guard |-> {}, calls |-> EmptyMap, reply |-> NoReply]

\* Plugin::initialize: a new executor with the DirectoryGuard, and the store
BridgeInitialize(b) ==
    [ExecutorRegister([b EXCEPT !.interceptors = 0]) EXCEPT !.initialized = TRUE]

\* notify_change: version.saturating_add(1), then notify_all; the version
\* starts at 1 and the bound on requests keeps it far below u64::MAX
NotifyChange(b) == [b EXCEPT !.version = @ + 1]

\* fault: a request is created in the state Running
CreateRequestRunning(b) ==
    [b EXCEPT !.requests = Append(@, [state |-> "Running", spawned |-> 0])]

\* RequestStore::create_request
CreateRequest(b) ==
    [b EXCEPT !.requests = Append(@, [state |-> "Pending", spawned |-> 0])]

\* RequestStore::get(id).is_some()
StoreHas(b, id) == id \in DOMAIN b.requests

\* RequestStore::update with a mutator that sets the state
StoreUpdate(b, id, state) == [b EXCEPT !.requests[id].state = state]

\* list_directory; `allowed` is whether the directory exists and is under
\* an allowed root
ListDirectory(b, allowed) ==
    IF ~allowed \/ ~b.initialized
    THEN [b EXCEPT !.reply = ToolError("list_directory",
                                       IF allowed THEN "uninitialized" ELSE "not_allowed")]
    ELSE LET n == NotifyChange(CreateRequest(b))
         IN  [n EXCEPT !.reply = [ToolSuccess("list_directory") EXCEPT
                                      !.action = "open_window"]]

\* fault: the state of the snapshot is not looked at
SnapshotUnchecked(b, id) ==
    IF id = 0 THEN "missing"
    ELSE IF ~b.initialized THEN "uninitialized"
    ELSE IF ~StoreHas(b, id) THEN "not_found"
    ELSE "Pending"

\* handle_request up to the check of the snapshot: what the rest runs on.
\* The id 0 stands for a missing or empty requestId.
Snapshot(b, id) ==
    IF id = 0 THEN "missing"
    ELSE IF ~b.initialized THEN "uninitialized"
    ELSE IF ~StoreHas(b, id) THEN "not_found"
    ELSE b.requests[id].state

\* handle_request: if decision == "reject"
IsReject(decision) == decision = "reject"

HandleReply(b, error) ==
    [b EXCEPT !.reply = IF error = "" THEN ToolSuccess("handle_request")
                                      ELSE ToolError("handle_request", error)]

\* the error handle_request returns for a snapshot it does not act on
SnapshotError(snapshot) ==
    IF snapshot \in RequestStates THEN "already_handled" ELSE snapshot

\* handle_request after the snapshot was found Pending: reject, or the
\* first update of execute_request
HandleDecision(b, id, decision) ==
    IF IsReject(decision)
    THEN HandleReply(NotifyChange(StoreUpdate(b, id, "Rejected")), "")
    ELSE StoreUpdate(b, id, "Running")

\* the process ran: Command::output returned Ok
Spawned(b) == \E j \in DOMAIN b.trace : b.trace[j].ev = "output" /\ b.trace[j].ok

\* execute_request after the update to Running; of the executor's call only
\* its outcome and whether the process ran are kept
ExecuteRequest(b, id, verdicts, launch) ==
    LET e == ExecutorExecute(b, verdicts, launch)
        r == [b EXCEPT !.requests[id].spawned = IF Spawned(e) THEN @ + 1 ELSE @]
    IN  IF e.result \in {"Unauthorized", "LaunchFailure"}
        THEN HandleReply(StoreUpdate(r, id, "Failed"), e.result)
        ELSE LET final == IF e.result = "exit_zero" THEN "Completed" ELSE "Failed"
             IN  HandleReply(NotifyChange(StoreUpdate(r, id, final)), "")

\* poll_updates: if *version <= since, the call waits on the condvar
PollWaits(b, since) == b.version <= since

\* poll_updates from the return of wait_timeout on, or from the start when
\* it does not wait
PollUpdates(b, since, waited, timed_out) ==
    LET none == waited /\ timed_out /\ b.version <= since
    IN  [b EXCEPT !.reply = [ToolSuccess("poll_updates") EXCEPT
                                 !.hasUpdate = ~none,
                                 !.version = b.version]]

\* ------------------------------------------------------------ state machine
VARIABLES
    alive,          \* the process runs and holds a PluginManager
    entries,        \* PluginRegistry.entries
    stateFile,      \* contents of <plugins_dir>/registry.json
    dirs,           \* plugin directories under plugins_dir: id -> manifest
    plugins,        \* PluginLoader.plugins
    hooks,          \* HookDispatcher.hooks
    plugin_hooks,   \* HookDispatcher.plugin_hooks
    installed,      \* history: the ids some install has registered so far
    holder,         \* the threads that own the Mutex<PluginManager>
    pc,             \* per calling thread: where it is in its command handler
    last,           \* the operation that led to this state, and its outcome
    bridge          \* the command-bridge plugin: executor, request store, version

vars == <<alive, entries, stateFile, dirs, plugins, hooks, plugin_hooks, installed, holder, pc, last,
         bridge>>

\* the host's memory and disk at the start of an operation
Mem ==
    [entries |-> entries, stateFile |-> stateFile, dirs |-> dirs, plugins |-> plugins,
     hooks |-> hooks, plugin_hooks |-> plugin_hooks,
     released |-> {}, calls |-> {}, failed |-> {}, invoked |-> <<>>, results |-> <<>>,
     ffi |-> <<>>]

\* the operations of the Loader, when they are called one by one
LoaderOps ==
    {"loader.load", "loader.unload", "loader.initialize", "loader.shutdown",
     "loader.get_tools", "loader.execute_tool", "loader.trigger_hook"}

\* the operations whose ordered trace of native calls is kept: the Loader's
\* own, and the teardown
TracedOps == LoaderOps \cup {"drop"}

\* of the other Manager operations the outcome keeps the set of calls
Outcome(op, target, r, res, pre) ==
    [op |-> op, target |-> target, ok |-> r.ok, res |-> res, pre |-> pre,
     failed |-> r.m.failed, released |-> r.m.released, calls |-> r.m.calls,
     invoked |-> r.m.invoked, results |-> r.m.results,
     ffi |-> IF op \in TracedOps THEN r.m.ffi ELSE <<>>]

\* the effect of one whole Manager operation on the host and its disk
Apply(r, a, op, target, res, pre) ==
    /\ alive' = a
    /\ entries' = r.m.entries
    /\ stateFile' = r.m.stateFile
    /\ dirs' = r.m.dirs
    /\ plugins' = r.m.plugins
    /\ hooks' = r.m.hooks
    /\ plugin_hooks' = r.m.plugin_hooks
    /\ installed' = IF op = "install" /\ r.ok THEN installed \cup target ELSE installed
    /\ UNCHANGED bridge
    /\ last' = Outcome(op, target, r, res, pre)

\* one command handler from manager.lock() to the drop of the guard, with no
\* other thread in between
Commit(r, a, op, target, res, pre) ==
    /\ Apply(r, a, op, target, res, pre)
    /\ UNCHANGED <<holder, pc>>

\* the threads that call the Manager: the one that runs the Tauri commands
\* and the one that serves the pluginevent protocol
Callers == {"command", "pluginevent"}

\* a thread outside every command handler
Idle == [st |-> "idle", op |-> "", target |-> {}]

\* PluginManager::new on an empty plugins directory
Init ==
    /\ alive = TRUE
    /\ entries = EmptyMap
    /\ stateFile = EmptyMap
    /\ dirs = EmptyMap
    /\ plugins = EmptyMap
    /\ hooks = EmptyMap
    /\ plugin_hooks = EmptyMap
    /\ installed = {}
    /\ holder = {}
    /\ pc = [c \in Callers |-> Idle]
    /\ last = [op |-> "new", target |-> {}, ok |-> TRUE, res |-> "", pre |-> {},
               failed |-> {}, released |-> {}, calls |-> {},
               invoked |-> <<>>, results |-> <<>>, ffi |-> <<>>]
    /\ bridge = BridgeDefault

\* What a native entry point returns is chosen freely at every call; for an id
\* the Loader does not hold no call can be made, so one value stands for all.
ShutdownStatus(id) == IF id \in DOMAIN plugins THEN Status ELSE {0}

InitializeStatus(id) ==
    IF id \in DOMAIN entries /\ id \in DOMAIN dirs /\ dirs[id].lib = "ok" THEN Status ELSE {0}

DoInstall ==
    /\ alive
    /\ \E id \in Ids, manifest \in Manifests :
          \E shutRc \in ShutdownStatus(id) :
              Commit(Install(Mem, id, manifest, TRUE, shutRc), TRUE, "install", {id}, "", {})

\* a package without manifest.json: no plugin id is ever read from it
DoInstallInvalid ==
    /\ alive
    /\ \E manifest \in {[hooks |-> {}, lib |-> "missing"]} :
          Commit(Install(Mem, 0, manifest, FALSE, 0), TRUE, "install", {}, "", {})

DoEnable ==
    /\ alive
    /\ \E id \in Ids :
          \E initRc \in InitializeStatus(id) :
              Commit(Enable(Mem, id, initRc), TRUE, "enable", {id}, "",
                     EnabledPlugins(Mem) \cap {id})

DoDisable ==
    /\ alive
    /\ \E id \in Ids :
          \E shutRc \in ShutdownStatus(id) :
              Commit(Disable(Mem, id, shutRc), TRUE, "disable", {id}, "",
                     EnabledPlugins(Mem) \cap {id})

DoUninstall ==
    /\ alive
    /\ \E id \in Ids :
          \E shutRc \in ShutdownStatus(id) :
              Commit(Uninstall(Mem, id, shutRc), TRUE, "uninstall", {id}, "",
                     EnabledPlugins(Mem) \cap {id})

DoSetConfig ==
    /\ alive
    /\ \E id \in Ids, config \in Configs :
          Commit(SetConfig(Mem, id, config), TRUE, "set_config", {id}, "", {})

DoRefresh ==
    /\ alive
    /\ Commit(Refresh(Mem), TRUE, "refresh", {}, "", {})

DoExecuteTool ==
    /\ alive
    /\ \E id \in Ids :
          \E ret \in (IF id \in DOMAIN plugins THEN ToolReturns ELSE {"null"}) :
              LET r == ExecuteTool(Mem, id, ret)
              IN  Commit(r, TRUE, "execute_tool", {id}, r.res, {})

\* res is the hook name, pre the set of plugin ids in the returned Vec<HookResult>
DoTriggerHook ==
    /\ alive
    /\ \E hook \in HookNames :
          \E rets \in {f \in [Ids -> HookReturns] :
                          \A id \in Ids : ~(id \in DOMAIN plugins /\ id \in GetListeners(Mem, hook))
                                              => f[id] = "null"} :
              LET r == TriggerHook(Mem, hook, rets)
              IN  Commit(r, TRUE, "trigger_hook", {}, hook,
                         {r.m.results[i] : i \in DOMAIN r.m.results})

\* process exit: the Manager is dropped; pre is the set of ids flagged enabled
DoTeardown ==
    /\ alive
    /\ \E shutRc \in {f \in [Ids -> Status] :
                        \A id \in Ids : id \notin DOMAIN plugins => f[id] = 0} :
          Commit(Ok(ManagerDrop(Mem, shutRc)), FALSE, "drop", {}, "", EnabledPlugins(Mem))

\* the process is killed: nothing is shut down, memory is lost, disk stays
DoCrash ==
    /\ alive
    /\ Commit(Ok([Mem EXCEPT !.entries = EmptyMap, !.plugins = EmptyMap,
                             !.hooks = EmptyMap, !.plugin_hooks = EmptyMap]),
              FALSE, "crash", {}, "", {})

\* process start: PluginManager::new on the existing plugins directory; pre is
\* the set of ids the state file flags enabled and whose manifest is on disk
DoNew ==
    /\ ~alive
    /\ \E initRc \in {f \in [Ids -> Status] :
                        \A id \in Ids : ~(id \in DOMAIN dirs /\ dirs[id].lib = "ok") => f[id] = 0} :
          Commit(ManagerNew(Mem, initRc), TRUE, "new", {}, "",
                 {id \in (DOMAIN stateFile) \cap (DOMAIN dirs) : stateFile[id].enabled})

\* a plugin directory is deleted behind the host's back
DoDeleteDirOutOfBand ==
    /\ \E id \in DOMAIN dirs :
          Commit(Ok([Mem EXCEPT !.dirs = Remove(@, id)]), alive, "oob_delete", {id}, "", {})

Next ==
    \/ DoInstall
    \/ DoInstallInvalid
    \/ DoEnable
    \/ DoDisable
    \/ DoUninstall
    \/ DoSetConfig
    \/ DoRefresh
    \/ DoExecuteTool
    \/ DoTriggerHook
    \/ DoTeardown
    \/ DoCrash
    \/ DoNew
    \/ DoDeleteDirOutOfBand

Spec == Init /\ [][Next]_vars

\* The operations that change what the host holds.  execute_tool and
\* trigger_hook change neither the Registry, the Loader's map, the Dispatcher
\* nor the disk, so the host states and the steps of the other operations are
\* the same with and without them.
LifecycleNext ==
    \/ DoInstall
    \/ DoInstallInvalid
    \/ DoEnable
    \/ DoDisable
    \/ DoUninstall
    \/ DoSetConfig
    \/ DoRefresh
    \/ DoTeardown
    \/ DoCrash
    \/ DoNew
    \/ DoDeleteDirOutOfBand

SpecLifecycle == Init /\ [][LifecycleNext]_vars

\* ------------------------------------------------- the plugins directory
\* The Registry against a plugins directory that also changes behind the
\* host's back: a plugin directory can be deleted, and one can be put there
\* by hand, which the Registry finds at the next scan with no state recorded
\* for it.  The packages are reduced to one module that loads; the Loader's
\* part (disable, tool calls, hooks, teardown) is left to Spec.
DiskManifests == {[hooks |-> {}, lib |-> "ok"]}

DiskInstall ==
    /\ alive
    /\ \E id \in Ids, manifest \in DiskManifests :
          \E shutRc \in ShutdownStatus(id) :
              Commit(Install(Mem, id, manifest, TRUE, shutRc), TRUE, "install", {id}, "", {})

DoCreateDirOutOfBand ==
    /\ \E id \in Ids \ DOMAIN dirs, manifest \in DiskManifests :
          Commit(Ok([Mem EXCEPT !.dirs = Put(@, id, manifest)]), alive, "oob_create", {id}, "", {})

DiskNext ==
    \/ DiskInstall
    \/ DoEnable
    \/ DoSetConfig
    \/ DoRefresh
    \/ DoDeleteDirOutOfBand
    \/ DoCreateDirOutOfBand

SpecDisk == Init /\ [][DiskNext]_vars

\* ------------------------------------------------ several plugins side by side
\* The same handlers with one more plugin id, for what the host does to one
\* plugin while it holds another.  The packages are reduced to two: a module
\* that loads and declares every hook, and a module that does not load;
\* uninstall, set_config, execute_tool, refresh and the kill of the process
\* are left to Spec.  Behind the host's back the module file of a plugin can
\* be replaced by one that does not load, which is how a subscriber comes to
\* be missing from the Loader: enable unloads the old module, fails to load
\* the new one, and never reaches the Dispatcher.
PairIds == 1..(NumPlugins + 1)

PairManifests == {[hooks |-> HookNames, lib |-> "ok"], [hooks |-> {}, lib |-> "bad"]}

PairInstall ==
    /\ alive
    /\ \E id \in PairIds, manifest \in PairManifests :
          \E shutRc \in ShutdownStatus(id) :
              Commit(Install(Mem, id, manifest, TRUE, shutRc), TRUE, "install", {id}, "", {})

PairEnable ==
    /\ alive
    /\ \E id \in PairIds :
          \E initRc \in InitializeStatus(id) :
              Commit(Enable(Mem, id, initRc), TRUE, "enable", {id}, "",
                     EnabledPlugins(Mem) \cap {id})

PairDisable ==
    /\ alive
    /\ \E id \in PairIds :
          \E shutRc \in ShutdownStatus(id) :
              Commit(Disable(Mem, id, shutRc), TRUE, "disable", {id}, "",
                     EnabledPlugins(Mem) \cap {id})

PairTriggerHook ==
    /\ alive
    /\ \E hook \in HookNames :
          \E rets \in {f \in [PairIds -> HookReturns] :
                          \A id \in PairIds :
                              ~(id \in DOMAIN plugins /\ id \in GetListeners(Mem, hook))
                                  => f[id] = "null"} :
              LET r == TriggerHook(Mem, hook, rets)
              IN  Commit(r, TRUE, "trigger_hook", {}, hook,
                         {r.m.results[i] : i \in DOMAIN r.m.results})

\* pre is the set of ids the Loader holds when the process exits
PairTeardown ==
    /\ alive
    /\ \E shutRc \in {f \in [PairIds -> Status] :
                        \A id \in PairIds : id \notin DOMAIN plugins => f[id] = 0} :
          Commit(Ok(ManagerDrop(Mem, shutRc)), FALSE, "drop", {}, "", DOMAIN plugins)

PairNew ==
    /\ ~alive
    /\ \E initRc \in {f \in [PairIds -> Status] :
                        \A id \in PairIds :
                            ~(id \in DOMAIN dirs /\ dirs[id].lib = "ok") => f[id] = 0} :
          Commit(ManagerNew(Mem, initRc), TRUE, "new", {}, "",
                 {id \in (DOMAIN stateFile) \cap (DOMAIN dirs) : stateFile[id].enabled})

PairReplaceLibOutOfBand ==
    /\ alive
    /\ \E id \in {x \in DOMAIN dirs : dirs[x].lib = "ok"} :
          Commit(Ok([Mem EXCEPT !.dirs[id].lib = "bad"]), TRUE, "oob_replace", {id}, "", {})

PairNext ==
    \/ PairInstall
    \/ PairEnable
    \/ PairDisable
    \/ PairTriggerHook
    \/ PairTeardown
    \/ PairNew
    \/ PairReplaceLibOutOfBand

SpecPair == Init /\ [][PairNext]_vars

\* --------------------------------------------------- the Manager's one lock
\* Two threads call the Manager through the Mutex<PluginManager> the setup
\* hook registers.  A handler is three steps here: the thread blocks in
\* manager.lock(), gets the guard and is inside its Manager operation, and
\* completes the operation and drops the guard.  A native call inside an
\* operation may never return: the thread then stays inside for ever.  The
\* packages are reduced to one module that loads.
host == <<alive, entries, stateFile, dirs, plugins, hooks, plugin_hooks, installed, last, bridge>>

LockManifests == {[hooks |-> {}, lib |-> "ok"]}

\* the pluginevent protocol reaches the Manager for "plugin-tool" only
CallerOps(c) ==
    IF c = "pluginevent"
    THEN {"execute_tool"}
    ELSE {"install", "enable", "disable", "execute_tool"}

\* fault: the guard is handed out although another thread owns the mutex
LockAlwaysFree == TRUE

\* Mutex::lock returns when no thread owns the mutex
LockFree == holder = {}

\* the thread is inside a Manager operation
InManager(c) == pc[c].st \in {"running", "hung"}

\* the operation reaches a native entry point of plugin id in the present
\* state: initialize in enable, shutdown in disable and in the uninstall of
\* install, execute_tool
CallsPlugin(op, id) ==
    CASE op = "enable" -> Exists(Mem, id) /\ LibPathExists(Mem, id) /\ dirs[id].lib = "ok"
      [] OTHER         -> IsLoaded(Mem, id)

LockRequest ==
    /\ alive
    /\ \E c \in Callers :
          /\ pc[c].st = "idle"
          /\ pc' = [pc EXCEPT ![c].st = "waiting"]
    /\ UNCHANGED <<host, holder>>

LockAcquire ==
    /\ LockFree
    /\ \E c \in Callers :
          /\ pc[c].st = "waiting"
          /\ holder' = holder \cup {c}
          /\ \E op \in CallerOps(c), id \in Ids :
                pc' = [pc EXCEPT ![c] = [st |-> "running", op |-> op, target |-> {id}]]
    /\ UNCHANGED host

LockHang ==
    /\ \E c \in Callers :
          /\ pc[c].st = "running"
          /\ \E id \in pc[c].target : CallsPlugin(pc[c].op, id)
          /\ pc' = [pc EXCEPT ![c].st = "hung"]
    /\ UNCHANGED <<host, holder>>

\* the guard is dropped when the handler returns
Unlock(c) ==
    /\ holder' = holder \ {c}
    /\ pc' = [pc EXCEPT ![c] = Idle]

LockedInstall ==
    \E c \in Callers :
        /\ pc[c].st = "running" /\ pc[c].op = "install"
        /\ \E id \in pc[c].target, manifest \in LockManifests :
              \E shutRc \in ShutdownStatus(id) :
                  Apply(Install(Mem, id, manifest, TRUE, shutRc), TRUE, "install", {id}, "", {})
        /\ Unlock(c)

LockedEnable ==
    \E c \in Callers :
        /\ pc[c].st = "running" /\ pc[c].op = "enable"
        /\ \E id \in pc[c].target :
              \E initRc \in InitializeStatus(id) :
                  Apply(Enable(Mem, id, initRc), TRUE, "enable", {id}, "",
                        EnabledPlugins(Mem) \cap {id})
        /\ Unlock(c)

LockedDisable ==
    \E c \in Callers :
        /\ pc[c].st = "running" /\ pc[c].op = "disable"
        /\ \E id \in pc[c].target :
              \E shutRc \in ShutdownStatus(id) :
                  Apply(Disable(Mem, id, shutRc), TRUE, "disable", {id}, "",
                        EnabledPlugins(Mem) \cap {id})
        /\ Unlock(c)

LockedExecuteTool ==
    \E c \in Callers :
        /\ pc[c].st = "running" /\ pc[c].op = "execute_tool"
        /\ \E id \in pc[c].target :
              \E ret \in (IF id \in DOMAIN plugins THEN ToolReturns ELSE {"null"}) :
                  LET r == ExecuteTool(Mem, id, ret)
                  IN  Apply(r, TRUE, "execute_tool", {id}, r.res, {})
        /\ Unlock(c)

LockNext ==
    \/ LockRequest
    \/ LockAcquire
    \/ LockHang
    \/ LockedInstall
    \/ LockedEnable
    \/ LockedDisable
    \/ LockedExecuteTool

SpecLock == Init /\ [][LockNext]_vars

\* ------------------------------------------------------ the Registry alone
\* The Registry's own mutators called directly, as its unit tests call them,
\* on two ids more than the Manager's specification has; the Manager reaches
\* register only after an uninstall and so never with a registered id.  The
\* outcome keeps the error kind in res and the argument in pre: the hooks of
\* the manifest, the flag, or the configuration.
ErrorKind(r) == IF r.ok THEN "" ELSE r.err

RegRegister ==
    /\ alive
    /\ \E id \in PairIds, manifest \in PairManifests :
          LET r == Register(Mem, id, manifest)
          IN  Commit(r, TRUE, "register", {id}, ErrorKind(r), manifest.hooks)

RegUnregister ==
    /\ alive
    /\ \E id \in PairIds :
          LET r == Unregister(Mem, id)
          IN  Commit(r, TRUE, "unregister", {id}, ErrorKind(r), {})

RegSetEnabled ==
    /\ alive
    /\ \E id \in PairIds, enabled \in BOOLEAN :
          LET r == SetEnabled(Mem, id, enabled)
          IN  Commit(r, TRUE, "set_enabled", {id}, ErrorKind(r), {enabled})

RegSetConfig ==
    /\ alive
    /\ \E id \in PairIds, config \in Configs :
          LET r == RegistrySetConfig(Mem, id, config)
          IN  Commit(r, TRUE, "set_config", {id}, ErrorKind(r), {config})

RegNext ==
    \/ RegRegister
    \/ RegUnregister
    \/ RegSetEnabled
    \/ RegSetConfig

SpecRegistry == Init /\ [][RegNext]_vars

\* -------------------------------------------------------- the Loader alone
\* The Loader's own operations called one by one on one module more than the
\* Manager's specification has.  The file behind an id is put in place from
\* outside: a module with all seven entry points, one that lacks one of them,
\* or a file that does not open.  What an entry point returns is chosen freely
\* at every call, and only one value is drawn for a call that is not made.
\* pre is the set of ids the Loader held before the operation.
LoaderLibs == {"ok", "bad", "no_initialize", "no_free_string", "no_get_last_error"}

NativeStatus == {0, 1, 2}

\* the file behind id opens and exports every entry point
Loadable(id) ==
    /\ id \in DOMAIN dirs
    /\ LibraryOpens(dirs[id].lib)
    /\ EntryPoints \subseteq Exports(dirs[id].lib)

LoaderPlaceLib ==
    /\ alive
    /\ \E id \in PairIds, lib \in LoaderLibs :
          Commit(Ok([Mem EXCEPT !.dirs = Put(@, id, [hooks |-> {}, lib |-> lib])]),
                 TRUE, "oob_place", {id}, lib, {})

LoaderDoLoad ==
    /\ alive
    /\ \E id \in DOMAIN dirs :
          Commit(LoaderLoad(Mem, id), TRUE, "loader.load", {id}, dirs[id].lib, DOMAIN plugins)

LoaderDoUnload ==
    /\ alive
    /\ \E id \in PairIds :
          Commit(LoaderUnload(Mem, id), TRUE, "loader.unload", {id}, "", DOMAIN plugins)

LoaderDoInitialize ==
    /\ alive
    /\ \E id \in PairIds :
          \E rc \in (IF id \in DOMAIN plugins THEN NativeStatus ELSE {0}) :
              \E msg \in (IF id \in DOMAIN plugins /\ rc # 0 THEN LastErrors ELSE {"null"}) :
                  LET r == Initialize(Mem, id, rc, msg)
                  IN  Commit(r, TRUE, "loader.initialize", {id}, ErrorKind(r), DOMAIN plugins)

LoaderDoShutdown ==
    /\ alive
    /\ \E id \in PairIds :
          \E rc \in (IF id \in DOMAIN plugins THEN NativeStatus ELSE {0}) :
              \E msg \in (IF id \in DOMAIN plugins /\ rc # 0 THEN LastErrors ELSE {"null"}) :
                  LET r == Shutdown(Mem, id, rc, msg)
                  IN  Commit(r, TRUE, "loader.shutdown", {id}, ErrorKind(r), DOMAIN plugins)

LoaderDoGetTools ==
    /\ alive
    /\ \E id \in PairIds :
          \E ret \in (IF id \in DOMAIN plugins THEN ToolsReturns ELSE {"null"}) :
              LET r == LoaderGetTools(Mem, id, ret)
              IN  Commit(r, TRUE, "loader.get_tools", {id}, r.res, DOMAIN plugins)

LoaderDoExecuteTool ==
    /\ alive
    /\ \E id \in PairIds :
          \E ret \in (IF id \in DOMAIN plugins THEN ToolReturns ELSE {"null"}) :
              LET r == LoaderExecuteTool(Mem, id, ret)
              IN  Commit(r, TRUE, "loader.execute_tool", {id}, r.res, DOMAIN plugins)

\* res is "some" for Ok(Some(value)), "none" for Ok(None), "" for Err
LoaderDoTriggerHook ==
    /\ alive
    /\ \E id \in PairIds :
          \E ret \in (IF id \in DOMAIN plugins THEN HookReturns ELSE {"null"}) :
              LET r == LoaderTriggerHook(Mem, id, ret)
              IN  Commit(r, TRUE, "loader.trigger_hook", {id},
                         IF ~r.ok THEN "" ELSE IF r.some THEN "some" ELSE "none",
                         DOMAIN plugins)

LoaderNext ==
    \/ LoaderPlaceLib
    \/ LoaderDoLoad
    \/ LoaderDoUnload
    \/ LoaderDoInitialize
    \/ LoaderDoShutdown
    \/ LoaderDoGetTools
    \/ LoaderDoExecuteTool
    \/ LoaderDoTriggerHook

SpecLoader == Init /\ [][LoaderNext]_vars

\* ---------------------------------------------------- the Dispatcher alone
\* The Dispatcher's own mutators called one by one, as its unit test calls
\* them, with two of the predefined hook names and one plugin id more than
\* the Manager's specification has; the Manager itself calls register_many
\* and unregister_all only.  res is the hook name, pre the hooks given to
\* register_many or those the plugin had before unregister_all.
DispatcherHooks == {"on_file_open", "on_text_select"}

HookDoRegister ==
    /\ alive
    /\ \E hook \in DispatcherHooks, id \in PairIds :
          Commit(Ok(HookRegister(Mem, hook, id)), TRUE, "hooks.register", {id}, hook, {})

HookDoRegisterMany ==
    /\ alive
    /\ \E hs \in SUBSET DispatcherHooks, id \in PairIds :
          Commit(Ok(RegisterMany(Mem, hs, id)), TRUE, "hooks.register_many", {id}, "", hs)

HookDoUnregister ==
    /\ alive
    /\ \E hook \in DispatcherHooks, id \in PairIds :
          Commit(Ok(HookUnregister(Mem, hook, id)), TRUE, "hooks.unregister", {id}, hook, {})

HookDoUnregisterAll ==
    /\ alive
    /\ \E id \in PairIds :
          Commit(Ok(UnregisterAll(Mem, id)), TRUE, "hooks.unregister_all", {id}, "",
                 GetPluginHooks(Mem, id))

HookDoClear ==
    /\ alive
    /\ Commit(Ok(Clear(Mem)), TRUE, "hooks.clear", {}, "", {})

DispatcherNext ==
    \/ HookDoRegister
    \/ HookDoRegisterMany
    \/ HookDoUnregister
    \/ HookDoUnregisterAll
    \/ HookDoClear

SpecDispatcher == Init /\ [][DispatcherNext]_vars

\* ------------------------------------------------------ the read side
\* The operations of the Manager that read, and set_config, on plugins that
\* are installed, enabled and disabled in between.
ReadOps == {"list", "get", "get_all_tools", "execute_tool", "trigger_hook"}

\* pre is the set of ids listed
DoList ==
    /\ alive
    /\ Commit(List(Mem), TRUE, "list", {}, "", DOMAIN entries)

DoGet ==
    /\ alive
    /\ \E id \in Ids :
          Commit(Get(Mem, id), TRUE, "get", {id}, "", EnabledPlugins(Mem) \cap {id})

DoGetAllTools ==
    /\ alive
    /\ \E rets \in {f \in [Ids -> ToolsReturns] :
                      \A id \in Ids : id \notin DOMAIN plugins => f[id] = "null"} :
          Commit(GetAllTools(Mem, rets), TRUE, "get_all_tools", {}, "", DOMAIN plugins)

ReadNext ==
    \/ DoInstall
    \/ DoEnable
    \/ DoDisable
    \/ DoSetConfig
    \/ DoList
    \/ DoGet
    \/ DoGetAllTools
    \/ DoExecuteTool
    \/ DoTriggerHook

SpecRead == Init /\ [][ReadNext]_vars

\* ------------------------------------------------------ the Executor alone
\* A CommandExecutor with up to MaxInterceptors interceptors; what each
\* before_execute returns and what comes of the launch is chosen freely at
\* every execute.
ExecDoRegister ==
    /\ bridge.interceptors < MaxInterceptors
    /\ bridge' = ExecutorRegister(bridge)
    /\ UNCHANGED <<alive, entries, stateFile, dirs, plugins, hooks, plugin_hooks, installed,
                   holder, pc, last>>

ExecDoExecute ==
    /\ \E verdicts \in [1..bridge.interceptors -> Verdicts], launch \in Launches :
          bridge' = ExecutorExecute(bridge, verdicts, launch)
    /\ UNCHANGED <<alive, entries, stateFile, dirs, plugins, hooks, plugin_hooks, installed,
                   holder, pc, last>>

ExecutorNext ==
    \/ ExecDoRegister
    \/ ExecDoExecute

SpecExecutor == Init /\ [][ExecutorNext]_vars

\* ------------------------------------------- the command-bridge at work
\* Two handlers of the host call tools of the command-bridge plugin.  Each
\* takes the Manager lock and, inside plugin_execute_tool of the plugin, the
\* plugin's own mutex, and holds both until the tool returns; the command
\* handler then handles the side effects of the result.  bridge.calls holds
\* the arguments and locals of the calls in progress.
manager == <<alive, entries, stateFile, dirs, plugins, hooks, plugin_hooks, installed, last>>

BridgeTools == {"list_directory", "handle_request", "poll_updates"}

\* the `since` argument of poll_updates: left out (0), or a version around
\* the current one
Sinces(b) == {0, b.version - 1, b.version, b.version + 1} \cap Nat

At(c, st, op) == pc[c].st = st /\ pc[c].op = op

Stage(c, st) == [pc EXCEPT ![c].st = st]

\* fault: the handler keeps its guard after the tool returned
GuardKept(c, h) == h

\* the guard of the handler goes out of scope once the result is there
GuardDropped(c, h) == h \ {c}

\* the tool returns b.reply: the plugin mutex and the Manager lock are
\* released, and the command handler goes on to handle_tool_side_effects
BridgeReturn(c, b) ==
    /\ bridge' = [b EXCEPT !.guard = @ \ {c}, !.calls = Remove(@, c)]
    /\ holder' = GuardDropped(c, holder)
    /\ pc' = [pc EXCEPT ![c] = IF c = "command" /\ b.reply.action = "open_window"
                                THEN [Idle EXCEPT !.st = "side_effects", !.op = pc[c].op]
                                ELSE Idle]

\* Manager::enable of the plugin, from a handler that holds the lock
BridgeDoInitialize ==
    /\ ~bridge.initialized
    /\ LockFree
    /\ bridge' = BridgeInitialize(bridge)
    /\ UNCHANGED <<manager, holder, pc>>

\* a handler receives a tool call and asks for the Manager lock
BridgeCall(c) ==
    /\ pc[c] = Idle
    /\ \E op \in BridgeTools :
          /\ op = "list_directory" => Len(bridge.requests) < MaxRequests
          /\ pc' = [pc EXCEPT ![c] = [Idle EXCEPT !.st = "waiting", !.op = op]]
    /\ UNCHANGED <<manager, holder, bridge>>

\* manager.lock() and, in the plugin, get_plugin().lock()
BridgeEnter(c) ==
    /\ pc[c].st = "waiting" /\ pc[c].op \in BridgeTools
    /\ LockFree
    /\ bridge.guard = {}
    /\ holder' = holder \cup {c}
    /\ \E id \in 0..MaxRequests, decision \in Decisions, since \in Sinces(bridge) :
          /\ pc[c].op # "handle_request" => id = 0 /\ decision = "absent"
          /\ pc[c].op # "poll_updates" => since = 0
          /\ bridge' = [bridge EXCEPT
                           !.guard = {c},
                           !.calls = Put(@, c, [id |-> id, decision |-> decision,
                                                since |-> since])]
    /\ pc' = Stage(c, "locked")
    /\ UNCHANGED manager

BridgeListDirectory(c) ==
    /\ At(c, "locked", "list_directory")
    /\ \E allowed \in BOOLEAN : BridgeReturn(c, ListDirectory(bridge, allowed))
    /\ UNCHANGED manager

\* handle_request: the arguments, the store, the snapshot and its state
BridgeSnapshot(c) ==
    /\ At(c, "locked", "handle_request")
    /\ LET a == bridge.calls[c]
       IN  IF Snapshot(bridge, a.id) = "Pending"
           THEN pc' = Stage(c, "checked") /\ UNCHANGED <<holder, bridge>>
           ELSE BridgeReturn(c, HandleReply(bridge, SnapshotError(Snapshot(bridge, a.id))))
    /\ UNCHANGED manager

\* handle_request: the decision
BridgeDecide(c) ==
    /\ At(c, "checked", "handle_request")
    /\ LET a == bridge.calls[c]
           b == HandleDecision(bridge, a.id, a.decision)
       IN  IF IsReject(a.decision)
           THEN BridgeReturn(c, b)
           ELSE bridge' = b /\ pc' = Stage(c, "executing") /\ UNCHANGED holder
    /\ UNCHANGED manager

\* execute_request: the command, the final state, the notification
BridgeExecute(c) ==
    /\ At(c, "executing", "handle_request")
    /\ LET a == bridge.calls[c]
       IN  \E verdicts \in [1..bridge.interceptors -> Verdicts], launch \in Launches :
               BridgeReturn(c, ExecuteRequest(bridge, a.id, verdicts, launch))
    /\ UNCHANGED manager

\* poll_updates up to wait_timeout
BridgePoll(c) ==
    /\ At(c, "locked", "poll_updates")
    /\ LET a == bridge.calls[c]
       IN  IF PollWaits(bridge, a.since)
           THEN pc' = Stage(c, "polling") /\ UNCHANGED <<holder, bridge>>
           ELSE BridgeReturn(c, PollUpdates(bridge, a.since, FALSE, FALSE))
    /\ UNCHANGED manager

\* wait_timeout returns: the timeout elapsed, or the thread was woken, by a
\* notify_all or spuriously
BridgeWake(c) ==
    /\ At(c, "polling", "poll_updates")
    /\ \E timed_out \in BOOLEAN :
          BridgeReturn(c, PollUpdates(bridge, bridge.calls[c].since, TRUE, timed_out))
    /\ UNCHANGED manager

\* handle_tool_side_effects: open_plugin_window_internal takes the lock
BridgeOpenWindow(c) ==
    /\ pc[c].st = "side_effects"
    /\ LockFree
    /\ holder' = holder \cup {c}
    /\ pc' = Stage(c, "window")
    /\ UNCHANGED <<manager, bridge>>

\* open_plugin_window_internal: drop(manager), then the window is built
BridgeWindowOpened(c) ==
    /\ pc[c].st = "window"
    /\ holder' = holder \ {c}
    /\ pc' = [pc EXCEPT ![c] = Idle]
    /\ UNCHANGED <<manager, bridge>>

BridgeNext ==
    \/ BridgeDoInitialize
    \/ \E c \in Callers : BridgeCall(c)
    \/ \E c \in Callers : BridgeEnter(c)
    \/ \E c \in Callers : BridgeListDirectory(c)
    \/ \E c \in Callers : BridgeSnapshot(c)
    \/ \E c \in Callers : BridgeDecide(c)
    \/ \E c \in Callers : BridgeExecute(c)
    \/ \E c \in Callers : BridgePoll(c)
    \/ \E c \in Callers : BridgeWake(c)
    \/ \E c \in Callers : BridgeOpenWindow(c)
    \/ \E c \in Callers : BridgeWindowOpened(c)

SpecBridge == Init /\ [][BridgeNext]_vars

\* ------------------------------------------------------------- observations
\* PluginInfo.enabled as list() reports it; an id without an entry is not enabled
Enabled(id) == id \in DOMAIN entries /\ entries[id].enabled

Registered(id) == id \in DOMAIN entries

\* PluginLoader::is_loaded
Loaded(id) == id \in DOMAIN plugins

\* the hooks h with id in get_listeners(h)
Subscribed(id) == Subscriptions(Mem, id)

NativeCall(id, fn) == [id |-> id, fn |-> fn] \in last.calls

\* the calls of PluginLoader::trigger_hook the last operation made for id
Invocations(id) == {k \in DOMAIN last.invoked : last.invoked[k].id = id}

\* what the call made for id came to: "not_loaded" or what on_hook returned
Returned(id, ret) == \E k \in Invocations(id) : last.invoked[k].ret = ret

\* registry.json holds exactly the ids in memory, each with the enabled flag
\* and the config it has in memory
InSync == stateFile = [id \in DOMAIN entries |-> PluginState(entries[id])]

\* the plugin ids of the HookResults the last trigger_hook returned
ResultIds == {last.results[i] : i \in DOMAIN last.results}

\* the trace of the last Loader operation holds a call of fn that returned str
NativeReturned(fn, str) ==
    \E i \in DOMAIN last.ffi : last.ffi[i].fn = fn /\ last.ffi[i].str = str

\* the entry points that return a string the plugin allocated
StringFns == {"get_tools", "execute_tool", "on_hook", "get_last_error"}

\* the subscriptions the forward map holds, as pairs of hook and plugin
Forward == {p \in DispatcherHooks \X PairIds : p[2] \in GetListeners(Mem, p[1])}

\* the subscriptions the reverse map holds, as pairs of hook and plugin
Reverse == {p \in DispatcherHooks \X PairIds : p[1] \in GetPluginHooks(Mem, p[2])}

\* ------------------------------------------------------------------- claims

\* C1: between Manager operations, for every plugin id the Registry flag
\* enabled(id) is true if and only if the Loader reports is_loaded(id), also
\* when initialize or shutdown returned a non-zero status.
C1_EnabledIffLoaded ==
    alive => \A id \in Ids : Enabled(id) <=> Loaded(id)

\* C2: when enable(id) loaded the module and initialize returned non-zero,
\* enable returns an error, the Loader holds no entry for id afterwards and
\* the Registry entry is enabled=false.
C2_InitFailureRolledBack ==
    \A id \in last.target :
        (last.op = "enable" /\ NativeCall(id, "initialize") /\ NativeCall(id, "get_last_error"))
            => (~last.ok /\ ~Loaded(id) /\ ~Enabled(id))

\* C3: after uninstall(id) of an enabled plugin returns, the Loader holds no
\* module for id, the Registry has no entry for id and the plugin directory is
\* gone, whether or not shutdown reported success.
C3_UninstallLeavesNothing ==
    \A id \in last.target :
        (last.op = "uninstall" /\ id \in last.pre)
            => (~Loaded(id) /\ ~Registered(id) /\ id \notin DOMAIN dirs)

\* C4: every module handle the host releases (unload, load replacing a loaded
\* id, Loader drop) had its shutdown entry point called before the release, by
\* the operation that releases it.  disable and the two drops call shutdown
\* right before they release; load replacing a loaded id is the release that
\* no call of its operation precedes.
C4_ShutdownBeforeRelease ==
    \A e \in last.released : e.shut

\* C5: after Manager construction in which every enable succeeded, a plugin is
\* loaded and flagged enabled exactly when the state file held enabled=true for
\* it and its manifest was on disk.
C5_RestartRestoresEnabled ==
    (last.op = "new" /\ last.failed = {})
        => \A id \in Ids : (Loaded(id) /\ Enabled(id)) <=> id \in last.pre

C5_Witness ==
    /\ last.op = "new"
    /\ last.failed = {}
    /\ last.pre # {}
    /\ \A id \in last.pre : Loaded(id) /\ Enabled(id) /\ NativeCall(id, "initialize")

\* C6: when enable fails for a plugin flagged enabled in the persisted state,
\* construction still succeeds, the plugin's flag is forced to enabled=false in
\* memory and on disk, and the Loader holds no module for it.
C6_FailedRestoreIsClean ==
    last.op = "new"
        => /\ last.ok
           /\ \A id \in last.failed :
                 /\ ~Enabled(id)
                 /\ id \in DOMAIN stateFile => ~stateFile[id].enabled
                 /\ ~Loaded(id)

\* C7: execute_tool(id, call) for an id that is registered with enabled=false
\* returns the "not enabled" error and makes no native call into the plugin.
C7_DisabledToolNotCalled ==
    \A id \in last.target :
        (last.op = "execute_tool" /\ Registered(id) /\ ~Enabled(id))
            => (~last.ok /\ last.res = "not_enabled" /\ last.calls = {})

\* C8: after any call to disable(id), successful or not, already disabled or
\* not, the Hook Dispatcher holds no subscription for id.
C8_DisableClearsSubscriptions ==
    \A id \in last.target :
        last.op = "disable" => (Subscribed(id) = {} /\ id \notin DOMAIN plugin_hooks)

\* disable returned an error (shutdown failed) for an enabled plugin whose
\* manifest declares hooks and that is therefore still loaded
C8_Witness ==
    \E id \in last.target :
        /\ last.op = "disable"
        /\ ~last.ok
        /\ id \in last.pre
        /\ Loaded(id)
        /\ Registered(id) /\ entries[id].hooks # {}
        /\ Subscribed(id) = {}

\* C9: between Manager operations a plugin id has Hook Dispatcher
\* subscriptions only if the Loader holds that plugin, and a successful
\* disable or uninstall leaves the id without subscriptions.
C9_SubscribedOnlyWhileLoaded ==
    /\ alive => \A id \in Ids : Subscribed(id) # {} => Loaded(id)
    /\ \A id \in last.target :
          (last.op \in {"disable", "uninstall"} /\ last.ok) => Subscribed(id) = {}

\* C10: after a successful enable(id) the Hook Dispatcher's subscriptions for
\* id are exactly the hooks of id's manifest and the Registry flag is enabled.
C10_EnableRebuildsSubscriptions ==
    \A id \in last.target :
        (last.op = "enable" /\ last.ok)
            => (Registered(id) /\ Enabled(id) /\ Subscribed(id) = entries[id].hooks)

\* C11: enable(id) for a registered plugin whose native module file does not
\* exist returns an error, makes no native call, leaves the Registry entry and
\* the state file as they were (a disabled plugin stays disabled, the config
\* is the same), creates no LoadedPlugin and registers no hook.
C11_EnableMissingLibrary ==
    [][\A id \in Ids :
          (last'.op = "enable" /\ last'.target = {id}
              /\ Registered(id) /\ ~LibPathExists(Mem, id))
          => /\ ~last'.ok
             /\ last'.calls = {}
             /\ entries' = entries
             /\ stateFile' = stateFile
             /\ ~Enabled(id) => ~entries'[id].enabled
             /\ plugins' = plugins
             /\ hooks' = hooks
             /\ plugin_hooks' = plugin_hooks]_vars

\* enable has just failed on a registered, disabled plugin whose package was
\* installed without the file manifest.main names
C11_Witness ==
    \E id \in last.target :
        /\ last.op = "enable"
        /\ ~last.ok
        /\ Registered(id) /\ ~Enabled(id)
        /\ id \in DOMAIN dirs /\ dirs[id].lib = "missing"
        /\ ~Loaded(id)
        /\ Subscribed(id) = {}

\* C12: after a successful install of a package with manifest id X, X is
\* registered with enabled=false; when X was registered before the install
\* (even enabled and configured), X is afterwards not loaded, has no hook
\* subscription, and its configuration is the empty default.
C12_InstallReplaces ==
    [][\A id \in Ids :
          (last'.op = "install" /\ last'.target = {id} /\ last'.ok)
          => /\ id \in DOMAIN entries'
             /\ ~entries'[id].enabled
             /\ Registered(id)
                   => /\ id \notin DOMAIN plugins'
                      /\ Subscribed(id)' = {}
                      /\ entries'[id].config = EmptyConfig]_vars

\* C13: disable(id) on a registered plugin whose flag is already enabled=false
\* returns success, calls neither shutdown nor unload and leaves the flag
\* false; and a disable(id) that follows a successful disable(id) changes
\* nothing in the host (disable;disable is disable).
C13_DisableIdempotent ==
    [][\A id \in Ids :
          (last'.op = "disable" /\ last'.target = {id} /\ Registered(id))
          => /\ ~Enabled(id)
                   => /\ last'.ok
                      /\ ~NativeCall(id, "shutdown")'
                      /\ last'.released = {}
                      /\ plugins' = plugins
                      /\ ~entries'[id].enabled
             /\ (last.op = "disable" /\ last.target = {id} /\ last.ok)
                   => /\ last'.ok
                      /\ entries' = entries
                      /\ stateFile' = stateFile
                      /\ plugins' = plugins
                      /\ hooks' = hooks
                      /\ plugin_hooks' = plugin_hooks]_vars

\* C14: enable, disable, uninstall and set_config called with a plugin id that
\* is not in the Registry because it was never installed each return an error
\* and leave the Registry entries, the Loader's loaded set and the
\* Dispatcher's subscriptions unchanged.
C14_UnknownIdRejected ==
    [][\A id \in Ids :
          (last'.op \in {"enable", "disable", "uninstall", "set_config"}
              /\ last'.target = {id}
              /\ id \notin installed /\ ~Registered(id))
          => /\ ~last'.ok
             /\ entries' = entries
             /\ stateFile' = stateFile
             /\ plugins' = plugins
             /\ hooks' = hooks
             /\ plugin_hooks' = plugin_hooks]_vars

\* disable has just been refused for an id no install ever registered
C14_Witness ==
    \E id \in last.target :
        /\ last.op = "disable"
        /\ ~last.ok
        /\ id \notin installed
        /\ ~Registered(id) /\ ~Loaded(id) /\ Subscribed(id) = {}

\* C15: on process teardown (Manager drop, then Loader drop) every module the
\* Loader holds gets a shutdown call before its handle is released, whatever
\* the shutdown of another plugin returned, and the teardown runs to its end:
\* no module is left in the Loader.
C15_TeardownShutsDownAll ==
    last.op = "drop"
        => /\ ~alive
           /\ plugins = EmptyMap
           /\ \A e \in last.released : e.shut
           /\ \A id \in last.pre :
                 /\ NativeCall(id, "shutdown")
                 /\ [id |-> id, shut |-> TRUE] \in last.released

\* a teardown with two modules in the Loader, the shutdown of one of them failed
C15_Witness ==
    /\ last.op = "drop"
    /\ \E id1, id2 \in last.pre :
          /\ id1 # id2
          /\ NativeCall(id1, "get_last_error")
          /\ ~NativeCall(id2, "get_last_error")
          /\ NativeCall(id2, "shutdown")
          /\ [id |-> id2, shut |-> TRUE] \in last.released

\* C16: trigger_hook(name, data) returns exactly one HookResult for each
\* plugin that is subscribed to name and whose handler returned a non-null
\* value, and none for any other plugin (handler returned null, call failed,
\* not subscribed); no plugin appears twice, and each subscriber is called
\* exactly once.
C16_OneResultPerResponder ==
    last.op = "trigger_hook"
        => /\ \A i, j \in DOMAIN last.results :
                 last.results[i] = last.results[j] => i = j
           /\ ResultIds = {id \in GetListeners(Mem, last.res) : Returned(id, "value")}
           /\ \A id \in GetListeners(Mem, last.res) : Cardinality(Invocations(id)) = 1
           /\ \A k \in DOMAIN last.invoked :
                 last.invoked[k].id \in GetListeners(Mem, last.res)

\* two subscribers, one returned a value and the other null: one HookResult
C16_Witness ==
    /\ last.op = "trigger_hook"
    /\ \E id1, id2 \in GetListeners(Mem, last.res) :
          /\ Returned(id1, "value")
          /\ Returned(id2, "null")
          /\ last.results = <<id1>>

\* C17: trigger_hook never fails as a whole: it always returns its result
\* list, and when the call of one subscriber fails (plugin not loaded,
\* malformed JSON) every other subscriber is still called and the non-null
\* responses are still in the list.
C17_HookErrorsAreSkipped ==
    last.op = "trigger_hook"
        => /\ last.ok
           /\ \A id \in GetListeners(Mem, last.res) :
                 /\ Invocations(id) # {}
                 /\ Returned(id, "value") => id \in ResultIds

\* two subscribers: one is not in the Loader, and the response of the other
\* is in the list
C17_Witness ==
    /\ last.op = "trigger_hook"
    /\ last.ok
    /\ \E id1, id2 \in GetListeners(Mem, last.res) :
          /\ Returned(id1, "not_loaded")
          /\ Returned(id2, "value")
          /\ id2 \in ResultIds
          /\ id1 \notin ResultIds

\* C18: the Manager operations of concurrent callers are serialized by the
\* one Manager lock: no two threads are inside a Manager operation at once,
\* so none has a plugin call in progress while another loads or unloads the
\* same plugin id; and while a plugin call that never returns holds a thread
\* inside, no other thread enters the Manager and the host does not change.
C18_OneOperationAtATime ==
    /\ [](\A c1, c2 \in Callers : (InManager(c1) /\ InManager(c2)) => c1 = c2)
    /\ [][\A c \in Callers :
             pc[c].st = "hung"
                 => /\ \A c2 \in Callers \ {c} : ~InManager(c2)'
                    /\ pc'[c].st = "hung"
                    /\ UNCHANGED host]_vars

\* the pluginevent thread is inside execute_tool, in a plugin call that never
\* returns, and the command thread is blocked in manager.lock()
C18_Witness ==
    /\ pc["pluginevent"].st = "hung"
    /\ pc["pluginevent"].op = "execute_tool"
    /\ \A id \in pc["pluginevent"].target : Loaded(id)
    /\ pc["command"].st = "waiting"

\* C19: after every successful operation that changes the Registry (register
\* in install, unregister in uninstall, set_enabled in enable and disable,
\* set_config) the state file maps exactly the ids in memory to their
\* {enabled, config} in memory, and between operations memory and state file
\* never differ.
C19_StateFileInSync ==
    /\ (last.op \in {"install", "uninstall", "enable", "disable", "set_config"} /\ last.ok)
           => InSync
    /\ alive => InSync

\* C20: after refresh() the Registry holds exactly the plugin ids whose
\* directory is on disk with a valid manifest (an entry whose directory was
\* deleted out of band is gone), and every entry has the enabled flag and the
\* config the state file records for its id, or enabled=false and the empty
\* config when the file records none.
C20_RefreshMatchesDisk ==
    last.op = "refresh"
        => /\ DOMAIN entries = DOMAIN dirs
           /\ \A id \in DOMAIN entries :
                 /\ entries[id].hooks = dirs[id].hooks
                 /\ PluginState(entries[id]) =
                        IF id \in DOMAIN stateFile THEN stateFile[id] ELSE DefaultState

\* a refresh that dropped the entry of a directory deleted out of band, the
\* state file still recording the id
C20_Witness ==
    /\ last.op = "refresh"
    /\ \E id \in DOMAIN stateFile : id \notin DOMAIN dirs /\ ~Registered(id)

\* C21: Registry.register of an id that is registered already fails with
\* PluginExists and leaves every entry and the state file as they were; of an
\* id that is not registered it succeeds, adds exactly one entry, with the
\* manifest given, enabled = false and the empty configuration, and the state
\* file holds that entry's default state next to the unchanged others.
C21_RegisterOnceOnly ==
    [][\A id \in PairIds :
          (last'.op = "register" /\ last'.target = {id}) =>
              IF id \in DOMAIN entries
              THEN /\ ~last'.ok
                   /\ last'.res = "PluginExists"
                   /\ entries' = entries
                   /\ stateFile' = stateFile
              ELSE /\ last'.ok
                   /\ entries' = Put(entries, id, [hooks |-> last'.pre, enabled |-> FALSE,
                                                   config |-> EmptyConfig])
                   /\ stateFile' = Put(stateFile, id, DefaultState)]_vars

\* a register was refused for an id whose entry is enabled and configured,
\* next to another entry
C21_Witness ==
    /\ last.op = "register" /\ ~last.ok
    /\ Cardinality(DOMAIN entries) > 1
    /\ \E id \in last.target :
          /\ id \in DOMAIN entries
          /\ entries[id].enabled
          /\ entries[id].config # EmptyConfig

\* C22: unregister, set_enabled and set_config of an id without an entry fail
\* with PluginNotFound and change neither the entries nor the state file; of a
\* registered id, unregister removes that entry alone, set_enabled changes
\* its enabled flag alone and set_config its configuration alone, and every
\* other entry stays as it was.
C22_MutatorsTouchOneEntry ==
    [][\A id \in PairIds :
          (last'.op \in {"unregister", "set_enabled", "set_config"} /\ last'.target = {id}) =>
              IF id \notin DOMAIN entries
              THEN /\ ~last'.ok
                   /\ last'.res = "PluginNotFound"
                   /\ entries' = entries
                   /\ stateFile' = stateFile
              ELSE /\ last'.ok
                   /\ last'.op = "unregister" => entries' = Remove(entries, id)
                   /\ last'.op = "set_enabled" =>
                          \E enabled \in last'.pre :
                              entries' = [entries EXCEPT ![id].enabled = enabled]
                   /\ last'.op = "set_config" =>
                          \E config \in last'.pre :
                              entries' = [entries EXCEPT ![id].config = config]]_vars

\* a set_config went through on an enabled entry next to another entry that
\* is enabled and configured
C22_Witness ==
    /\ last.op = "set_config" /\ last.ok
    /\ \E id \in last.target, other \in DOMAIN entries :
          /\ other # id
          /\ entries[id].enabled /\ entries[id].config # EmptyConfig
          /\ entries[other].enabled /\ entries[other].config # EmptyConfig

\* C23: Loader.load is all-or-nothing.  When the module file does not open or
\* lacks one of the seven entry points, load returns an error and the Loader
\* holds no LoadedPlugin for the id afterwards, whether it held one before or
\* not; it holds one after load exactly when all seven were resolved.
C23_LoadAllOrNothing ==
    \A id \in last.target :
        last.op = "loader.load" =>
            /\ last.ok <=> Loadable(id)
            /\ Loaded(id) <=> last.ok

\* a load failed on a module that lacks get_last_error, for an id the Loader
\* held before, and the Loader holds nothing for it now
C23_Witness ==
    /\ last.op = "loader.load" /\ ~last.ok
    /\ last.res = "no_get_last_error"
    /\ \E id \in last.target : id \in last.pre /\ ~Loaded(id)

\* C24: when the native execute_tool returns a null pointer, the Loader
\* returns Ok with a ToolResult whose success is false and which carries an
\* error message, never one whose success is true.
C24_NullIsFailure ==
    (last.op = "loader.execute_tool" /\ NativeReturned("execute_tool", "null")) =>
        /\ last.ok
        /\ ~ToolResult[last.res].success
        /\ ToolResult[last.res].error

\* the native execute_tool returned a null pointer and the caller got the
\* ToolResult built for it
C24_Witness ==
    /\ last.op = "loader.execute_tool"
    /\ NativeReturned("execute_tool", "null")
    /\ last.res = "null_failure"

\* C25: execute_tool never reports success for a ToolResult that carries an
\* error string together with success = true.
C25_NoSuccessWithError ==
    (last.op = "execute_tool" /\ last.ok) =>
        ~(ToolResult[last.res].success /\ ToolResult[last.res].error)

\* C26: in every Loader operation, each non-null string an entry point
\* returns is copied and then given to free_string, once, before the
\* operation returns, whether the copy parses or not; free_string is called
\* on nothing else, so never on a null pointer.
C26_StringsFreedOnce ==
    LET t == last.ffi
        strings == {i \in DOMAIN t : t[i].fn \in StringFns /\ t[i].str # "null"}
        frees   == {i \in DOMAIN t : t[i].fn = "free_string"}
    IN  /\ \A i \in strings :
              /\ i + 2 <= Len(t)
              /\ t[i + 1].fn = "into_owned" /\ t[i + 1].str = t[i].str
              /\ t[i + 2].fn = "free_string" /\ t[i + 2].str = t[i].str
              /\ t[i + 2].id = t[i].id
        /\ \A j \in frees : j - 2 \in strings
        /\ \A j \in frees : t[j].str # "null"

\* get_tools returned text that is not a tool list: the operation failed on
\* the parse and the string was freed
C26_Witness ==
    /\ last.op = "loader.get_tools" /\ ~last.ok
    /\ NativeReturned("get_tools", "invalid")
    /\ NativeReturned("free_string", "invalid")

\* C27: get_last_error is called only as the call next after an initialize
\* or shutdown of the same plugin that returned a non-zero status; the error
\* of that operation is the plugin's message when the pointer is non-null and
\* the unknown-error text with the status code when it is null.
C27_LastErrorOnlyAfterFailure ==
    LET t == last.ffi
    IN  \A i \in DOMAIN t :
            t[i].fn = "get_last_error" =>
                /\ i > 1
                /\ t[i - 1].fn \in {"initialize", "shutdown"}
                /\ t[i - 1].rc # 0
                /\ t[i - 1].id = t[i].id
                /\ ~last.ok
                /\ last.res = IF t[i].str # "null" THEN t[i].str ELSE UnknownError(t[i - 1].rc)

\* a shutdown returned 2 and get_last_error a null pointer
C27_Witness ==
    /\ last.op = "loader.shutdown" /\ ~last.ok
    /\ NativeReturned("get_last_error", "null")
    /\ last.res = "Unknown error (code: 2)"

\* C28: after any sequence of register, register_many, unregister,
\* unregister_all and clear, plugin p is in hooks[h] exactly when h is in
\* plugin_hooks[p].
C28_MapsMirror ==
    /\ Forward = Reverse
    /\ \A h \in DOMAIN hooks : h \in DispatcherHooks /\ hooks[h] \subseteq PairIds
    /\ \A id \in DOMAIN plugin_hooks :
          id \in PairIds /\ plugin_hooks[id] \subseteq DispatcherHooks

\* a single unregister took one of two plugins off a hook that both listened
\* to, and the plugin taken off still listens to the other hook
C28_Witness ==
    /\ last.op = "hooks.unregister"
    /\ \E id \in last.target :
          /\ GetListeners(Mem, last.res) # {}
          /\ id \notin GetListeners(Mem, last.res)
          /\ GetPluginHooks(Mem, id) # {}

\* C29: unregister(hook, id) removes the subscription of id to hook and no
\* other; unregister_all(id) removes the subscriptions of id and no other;
\* get_listeners(h) returns the plugins that remain subscribed to h.
C29_UnregisterRemovesExactly ==
    [][\A id \in PairIds :
          /\ (last'.op = "hooks.unregister" /\ last'.target = {id}) =>
                 Forward' = Forward \ {<<last'.res, id>>}
          /\ (last'.op = "hooks.unregister_all" /\ last'.target = {id}) =>
                 Forward' = {p \in Forward : p[2] # id}]_vars

\* an unregister_all took a plugin off two hooks and left another plugin on
\* both of them
C29_Witness ==
    /\ last.op = "hooks.unregister_all"
    /\ last.pre = DispatcherHooks
    /\ \E id \in last.target, other \in PairIds :
          /\ other # id
          /\ GetPluginHooks(Mem, id) = {}
          /\ \A h \in DispatcherHooks : GetListeners(Mem, h) = {other}

\* C30: neither map has a key whose set is empty; list_hooks lists exactly
\* the hooks that have a listener; has_listeners(h) is true exactly when h is
\* a key of the forward map.
C30_EmptyEntriesPruned ==
    /\ \A h \in DOMAIN hooks : hooks[h] # {}
    /\ \A id \in DOMAIN plugin_hooks : plugin_hooks[id] # {}
    /\ ListHooks(Mem) = {h \in DispatcherHooks : GetListeners(Mem, h) # {}}
    /\ \A h \in DispatcherHooks : HasListeners(Mem, h) <=> h \in DOMAIN hooks

\* the last listener of a hook was taken off while the other hook keeps one
C30_Witness ==
    /\ last.op \in {"hooks.unregister", "hooks.unregister_all"}
    /\ \E h \in DispatcherHooks, id \in last.target :
          /\ h \notin DOMAIN hooks
          /\ ~HasListeners(Mem, h)
          /\ id \notin DOMAIN plugin_hooks
    /\ DOMAIN hooks # {}

\* ------------------------------------------------------------------- C31
Befores(t) == SelectSeq(t, LAMBDA e : e.ev = "before_execute")
Outputs(t) == SelectSeq(t, LAMBDA e : e.ev = "output")
Afters(t) == SelectSeq(t, LAMBDA e : e.ev = "after_execute")

InRegistrationOrder(t) == \A j \in 1..Len(t) : t[j].i = j

Aborted(t) == Befores(t) # <<>> /\ ~Befores(t)[Len(Befores(t))].ok

\* C31: one execute over n interceptors calls before_execute in registration
\* order; the first Err ends the call: the process is not spawned, no later
\* before_execute and no after_execute is called and the call returns the
\* error.  When every before_execute succeeded the process is launched once,
\* and when it ran to its end after_execute is called on every interceptor
\* in registration order, after the process; a launch that failed is
\* followed by no after_execute.
C31_InterceptorsInOrder ==
    [][bridge'.interceptors = bridge.interceptors =>
        LET t == bridge'.trace
            n == bridge.interceptors
            b == Befores(t)
        IN  /\ t = b \o Outputs(t) \o Afters(t)
            /\ InRegistrationOrder(b)
            /\ Len(b) <= n
            /\ \A j \in 1..(Len(b) - 1) : b[j].ok
            /\ IF Aborted(t)
               THEN /\ Outputs(t) = <<>>
                    /\ Afters(t) = <<>>
                    /\ bridge'.result = "Unauthorized"
               ELSE /\ Len(b) = n
                    /\ Len(Outputs(t)) = 1
                    /\ IF Outputs(t)[1].ok
                       THEN /\ InRegistrationOrder(Afters(t))
                            /\ Len(Afters(t)) = n
                            /\ bridge'.result \in {"exit_zero", "exit_nonzero"}
                       ELSE /\ Afters(t) = <<>>
                            /\ bridge'.result = "LaunchFailure"]_vars

\* the second of three interceptors refused: the third was never asked
C31_InterceptorsInOrder_Witness ==
    /\ bridge.interceptors = 3
    /\ bridge.result = "Unauthorized"
    /\ Len(bridge.trace) = 2

\* ------------------------------------------------------------------- C32
\* the number of processes run for request id grows in this step
SpawnsFor(id) ==
    /\ id \in DOMAIN bridge.requests
    /\ bridge'.requests[id].spawned > bridge.requests[id].spawned

\* handler c is in handle_request for request id, at stage st
Handling(c, id, st) ==
    /\ At(c, st, "handle_request")
    /\ bridge.calls[c].id = id

\* C32: a command is spawned for a request only by a handle_request on that
\* request whose decision is "approve" or absent; a handle_request with the
\* decision "reject" moves the request to Rejected and spawns nothing.
C32_OnlyApprovedRuns ==
    [][/\ \A id \in DOMAIN bridge'.requests :
             SpawnsFor(id) =>
                 \E c \in Callers :
                     /\ Handling(c, id, "executing")
                     /\ bridge.calls[c].decision \in {"approve", "absent"}
       /\ \A c \in Callers, id \in DOMAIN bridge.requests :
             (Handling(c, id, "checked") /\ bridge.calls[c].decision = "reject" /\ pc'[c] # pc[c]) =>
                 /\ bridge'.requests[id].state = "Rejected"
                 /\ ~SpawnsFor(id)]_vars

\* ------------------------------------------------------------------- C33
\* the handler is about to call lock() on the Manager mutex
AtLock(c) == pc[c].st \in {"waiting", "side_effects"}

\* C33: no handler calls lock() on the Manager mutex while it holds it; in
\* particular plugin_execute_tool has released the lock when it handles the
\* side effects of the result, so that open_plugin_window_internal can take
\* the lock itself.
C33_LockReleasedBeforeSideEffects ==
    \A c \in Callers : AtLock(c) => c \notin holder

\* the command handler opens the window of a list_directory result: it holds
\* the lock again, taken by open_plugin_window_internal
C33_LockReleasedBeforeSideEffects_Witness ==
    /\ pc["command"].st = "window"
    /\ pc["command"].op = "list_directory"
    /\ "command" \in holder
    /\ bridge.reply.action = "open_window"

\* ------------------------------------------------------------------- C34
\* the calls of the shutdown entry point of id in the last operation's trace
ShutdownCalls(id) ==
    {i \in DOMAIN last.ffi : last.ffi[i].fn = "shutdown" /\ last.ffi[i].id = id}

\* the teardown's disable of id returned Ok: no shutdown call for id
\* returned a non-zero status
Disabled(id) == \A i \in ShutdownCalls(id) : last.ffi[i].rc = 0

\* C34: dropping the Manager writes enabled=false to the state file for
\* every plugin it successfully disables, and the Manager constructed next
\* on the same directory finds no plugin flagged enabled and loads none.
C34_TeardownDisablesAll ==
    [][/\ last'.op = "drop" =>
             \A id \in last'.pre :
                 Disabled(id)' => (id \in DOMAIN stateFile' /\ ~stateFile'[id].enabled)
       /\ (last.op = "drop" /\ last'.op = "new") =>
             /\ last'.pre = {}
             /\ plugins' = EmptyMap]_vars

\* ------------------------------------------------------------------- C35
\* C35: during one teardown, Manager drop followed by Loader drop, the host
\* calls the shutdown entry point of each module at most once, also when
\* the call returns a non-zero status.
C35_ShutdownAtMostOnce ==
    last.op = "drop" => \A id \in Ids : Cardinality(ShutdownCalls(id)) <= 1

\* ------------------------------------------------------------------- C36
\* C36: list, get, get_all_tools, execute_tool and trigger_hook leave the
\* Registry entries, the state file, the Loader's set of loaded plugins and
\* the Dispatcher's subscriptions as they were, whatever the plugin
\* returns; set_config changes nothing but the config of the entry it
\* names: no enabled flag, no loaded plugin, no subscription.
C36_ReadSideFrame ==
    [][/\ last'.op \in ReadOps =>
             UNCHANGED <<entries, stateFile, plugins, hooks, plugin_hooks>>
       /\ last'.op = "set_config" =>
             /\ UNCHANGED <<plugins, hooks, plugin_hooks>>
             /\ DOMAIN entries' = DOMAIN entries
             /\ \A id \in DOMAIN entries :
                   /\ [entries'[id] EXCEPT !.config = entries[id].config] = entries[id]
                   /\ id \notin last'.target => entries'[id] = entries[id]
                   /\ stateFile'[id].enabled = entries[id].enabled]_vars

\* execute_tool on a loaded, subscribed plugin whose answer does not parse
C36_ReadSideFrame_Witness ==
    /\ last.op = "execute_tool"
    /\ last.res = "json_error"
    /\ \E id \in last.target : Loaded(id) /\ Enabled(id) /\ Subscribed(id) # {}

\* ------------------------------------------------------------------- C37
\* the changes of state a request may go through
Transitions ==
    {<<"Pending", "Rejected">>, <<"Pending", "Running">>,
     <<"Running", "Completed">>, <<"Running", "Failed">>}

\* C37: a request is created Pending and its state changes only from
\* Pending to Rejected or Running and from Running to Completed or Failed;
\* Completed, Rejected and Failed are never left, and no request leaves
\* the store.
C37_RequestStateMachine ==
    [][/\ DOMAIN bridge.requests \subseteq DOMAIN bridge'.requests
       /\ \A id \in DOMAIN bridge'.requests :
             IF id \in DOMAIN bridge.requests
             THEN \/ bridge'.requests[id].state = bridge.requests[id].state
                  \/ <<bridge.requests[id].state, bridge'.requests[id].state>> \in Transitions
             ELSE bridge'.requests[id].state = "Pending"]_vars

\* one request was run to its end, another was rejected
C37_RequestStateMachine_Witness ==
    \E i, j \in DOMAIN bridge.requests :
        /\ bridge.requests[i].state = "Completed"
        /\ bridge.requests[j].state = "Rejected"

\* ------------------------------------------------------------------- C38
\* handler c leaves handle_request at the check of the snapshot
Refused(c) ==
    /\ At(c, "locked", "handle_request")
    /\ pc'[c] # pc[c]
    /\ Snapshot(bridge, bridge.calls[c].id) \in (RequestStates \ {"Pending"}) \cup {"not_found"}

\* C38: over every interleaving of handle_request calls the command of a
\* request is spawned at most once, the snapshot a call acts on is still the
\* request's state when it acts, and a handle_request on a request that is
\* not Pending or on an unknown id returns an error and leaves the store
\* and the version as they were.
C38_SpawnedAtMostOnce ==
    /\ [](\A id \in DOMAIN bridge.requests : bridge.requests[id].spawned <= 1)
    /\ [](\A c \in Callers :
             At(c, "checked", "handle_request") =>
                 bridge.requests[bridge.calls[c].id].state = "Pending")
    /\ [][\A c \in Callers :
             Refused(c) =>
                 /\ bridge'.requests = bridge.requests
                 /\ bridge'.version = bridge.version
                 /\ bridge'.reply.tool = "handle_request"
                 /\ ~bridge'.reply.ok]_vars

\* a second handle_request on a request whose command has run was refused,
\* while another handler waits for its turn to handle the same store
C38_SpawnedAtMostOnce_Witness ==
    /\ bridge.reply = ToolError("handle_request", "already_handled")
    /\ \E id \in DOMAIN bridge.requests :
          bridge.requests[id].state = "Completed" /\ bridge.requests[id].spawned = 1
    /\ \E c \in Callers : At(c, "waiting", "handle_request")

\* ------------------------------------------------------------------- C39
\* handler c returns from poll_updates in this step
PollReturns(c) == pc[c].op = "poll_updates" /\ c \in bridge.guard /\ c \notin bridge'.guard

\* C39: poll_updates(since) answers hasUpdate=true only with a version
\* greater than since and hasUpdate=false only with a version of at most
\* since; the version never decreases and grows by one with every
\* notification.
C39_HasUpdateIffNewer ==
    [][/\ \A c \in Callers :
             PollReturns(c) =>
                 /\ bridge'.reply.tool = "poll_updates"
                 /\ bridge'.reply.hasUpdate <=> bridge'.reply.version > bridge.calls[c].since
       /\ bridge'.version \in {bridge.version, bridge.version + 1}]_vars

\* ------------------------------------------------------------------- C40
\* handler c is blocked in wait_timeout of poll_updates
Polling(c) == At(c, "polling", "poll_updates")

\* handler d has a list_directory or handle_request to make and stands at
\* manager.lock()
Wanting(d) == pc[d].st = "waiting" /\ pc[d].op \in {"list_directory", "handle_request"}

\* C40: while a handler is blocked in poll_updates, a list_directory or
\* handle_request of another handler on the same plugin can go on: its way
\* into the plugin is open.
C40_PollLetsOthersRun ==
    \A c, d \in Callers : (Polling(c) /\ Wanting(d)) => ENABLED BridgeEnter(d)

====
